---- MODULE Spec2Model ----
(***************************************************************************)
(* Sales-Analyzer (src/app.py): the value normalizers, the column          *)
(* resolver, the aggregation with its derived KPIs, the Top/Flop           *)
(* leaderboard and the period summary of the dashboard script.             *)
(*                                                                         *)
(* Texts.  A text is a sequence of characters.  The characters that are    *)
(* not ASCII are written "<en>" (en dash), "<em>" (em dash), "<nbsp>"      *)
(* (non-breaking space), "<eur>" (euro sign) and "<Ue>" (U umlaut).        *)
(* Headers, file names and example cells are named by an ASCII string and  *)
(* Chars maps the name to its characters.                                  *)
(*                                                                         *)
(* Floats.  A float is NaN, plus or minus infinity, or a finite value kept *)
(* as a reduced fraction num/den; binary rounding is not modelled.         *)
(*                                                                         *)
(* Five parts share the variables: a normalizer run on one cell            *)
(* (SpecParse), find_column run on one header list (SpecFind),             *)
(* load_and_process_csv run on one uploaded file (SpecLoad), the loading   *)
(* loop of the script run on the uploaded files (SpecUpload), and the      *)
(* dashboard script run on the frame of the uploaded reports               *)
(* (SpecDashboard, SpecLeaders, SpecRegroup).  Each part leaves the        *)
(* variables of the others at their idle values.                           *)
(***************************************************************************)
EXTENDS Integers, Sequences, FiniteSets, TLC

VARIABLES
    value,            \* the cell handed to a normalizer
    parsed,           \* which normalizer ran on it, and what it returned
    columns,          \* df.columns handed to find_column
    possible_names,   \* the candidate list handed to find_column
    found,            \* what find_column returned
    filtered_df,      \* the frame of the loaded reports (filtered_df)
    traffic_type_key, \* 'normal' or 'B2B'
    is_account_level, \* the reports have a Datum column
    aggregated_data,  \* the frame of the periods
    shown,            \* what st.warning and st.info showed, and the leaders shown
    summary,          \* the text of the summary section
    top_asins,        \* the first result of get_top_flop_asins
    flop_asins,       \* the second result of get_top_flop_asins
    pc,               \* the section the script is at
    uploaded_file,    \* the frame pd.read_csv returns for an uploaded file
    uploaded_file_name, \* the name of the uploaded file
    loaded,           \* what load_and_process_csv returned for it
    uploaded_files,   \* the files of the uploader, in their order
    file_index,       \* how many of them the loading loop has handled
    all_dataframes    \* the frames of the files that were loaded

vars == <<value, parsed, columns, possible_names, found, filtered_df, traffic_type_key,
          is_account_level, aggregated_data, shown, summary, top_asins, flop_asins, pc,
          uploaded_file, uploaded_file_name, loaded, uploaded_files, file_index,
          all_dataframes>>

(***************************************************************************)
(* Bounds of the model.                                                    *)
(***************************************************************************)
\* longest cell text that is enumerated character by character
MaxLen == 4
\* longest header list handed to find_column
MaxCols == 2
\* most rows of a frame whose rows vary in period and figures
MaxRows == 2
\* most metric headers a report lacks, besides the named families of headers
MaxMissing == 1
\* most rows of a frame whose rows vary in product
MaxProductRows == 3
\* the characters of every named text (header, keyword, cell, file name)
Chars ==
    ("Bestellte Einheiten" :> <<"B", "e", "s", "t", "e", "l", "l", "t", "e", " ", "E", "i", "n", "h", "e", "i", "t", "e", "n">>)
 @@ ("Bestellte Einheiten <en> B2B" :> <<"B", "e", "s", "t", "e", "l", "l", "t", "e", " ", "E", "i", "n", "h", "e", "i", "t", "e", "n", " ", "<en>", " ", "B", "2", "B">>)
 @@ ("Bestellte Einheiten - B2B" :> <<"B", "e", "s", "t", "e", "l", "l", "t", "e", " ", "E", "i", "n", "h", "e", "i", "t", "e", "n", " ", "-", " ", "B", "2", "B">>)
 @@ ("Durch bestellte Produkte erzielter Umsatz" :> <<"D", "u", "r", "c", "h", " ", "b", "e", "s", "t", "e", "l", "l", "t", "e", " ", "P", "r", "o", "d", "u", "k", "t", "e", " ", "e", "r", "z", "i", "e", "l", "t", "e", "r", " ", "U", "m", "s", "a", "t", "z">>)
 @@ ("Bestellsumme <en> B2B" :> <<"B", "e", "s", "t", "e", "l", "l", "s", "u", "m", "m", "e", " ", "<en>", " ", "B", "2", "B">>)
 @@ ("Bestellsumme - B2B" :> <<"B", "e", "s", "t", "e", "l", "l", "s", "u", "m", "m", "e", " ", "-", " ", "B", "2", "B">>)
 @@ ("Seitenaufrufe <en> Summe" :> <<"S", "e", "i", "t", "e", "n", "a", "u", "f", "r", "u", "f", "e", " ", "<en>", " ", "S", "u", "m", "m", "e">>)
 @@ ("Seitenaufrufe - Summe" :> <<"S", "e", "i", "t", "e", "n", "a", "u", "f", "r", "u", "f", "e", " ", "-", " ", "S", "u", "m", "m", "e">>)
 @@ ("Seitenaufrufe <en> Summe <en> B2B" :> <<"S", "e", "i", "t", "e", "n", "a", "u", "f", "r", "u", "f", "e", " ", "<en>", " ", "S", "u", "m", "m", "e", " ", "<en>", " ", "B", "2", "B">>)
 @@ ("Seitenaufrufe - Summe - B2B" :> <<"S", "e", "i", "t", "e", "n", "a", "u", "f", "r", "u", "f", "e", " ", "-", " ", "S", "u", "m", "m", "e", " ", "-", " ", "B", "2", "B">>)
 @@ ("Sitzungen <en> Summe" :> <<"S", "i", "t", "z", "u", "n", "g", "e", "n", " ", "<en>", " ", "S", "u", "m", "m", "e">>)
 @@ ("Sitzungen - Summe" :> <<"S", "i", "t", "z", "u", "n", "g", "e", "n", " ", "-", " ", "S", "u", "m", "m", "e">>)
 @@ ("Sitzungen <en> Summe <en> B2B" :> <<"S", "i", "t", "z", "u", "n", "g", "e", "n", " ", "<en>", " ", "S", "u", "m", "m", "e", " ", "<en>", " ", "B", "2", "B">>)
 @@ ("Sitzungen - Summe - B2B" :> <<"S", "i", "t", "z", "u", "n", "g", "e", "n", " ", "-", " ", "S", "u", "m", "m", "e", " ", "-", " ", "B", "2", "B">>)
 @@ ("Zahl der Bestellposten" :> <<"Z", "a", "h", "l", " ", "d", "e", "r", " ", "B", "e", "s", "t", "e", "l", "l", "p", "o", "s", "t", "e", "n">>)
 @@ ("Zahl der Bestellposten <en> B2B" :> <<"Z", "a", "h", "l", " ", "d", "e", "r", " ", "B", "e", "s", "t", "e", "l", "l", "p", "o", "s", "t", "e", "n", " ", "<en>", " ", "B", "2", "B">>)
 @@ ("Zahl der Bestellposten - B2B" :> <<"Z", "a", "h", "l", " ", "d", "e", "r", " ", "B", "e", "s", "t", "e", "l", "l", "p", "o", "s", "t", "e", "n", " ", "-", " ", "B", "2", "B">>)
 @@ ("Sitzungen <en> mobile App" :> <<"S", "i", "t", "z", "u", "n", "g", "e", "n", " ", "<en>", " ", "m", "o", "b", "i", "l", "e", " ", "A", "p", "p">>)
 @@ ("Sitzungen - mobile App" :> <<"S", "i", "t", "z", "u", "n", "g", "e", "n", " ", "-", " ", "m", "o", "b", "i", "l", "e", " ", "A", "p", "p">>)
 @@ ("Sitzungen <en> mobile App <en> B2B" :> <<"S", "i", "t", "z", "u", "n", "g", "e", "n", " ", "<en>", " ", "m", "o", "b", "i", "l", "e", " ", "A", "p", "p", " ", "<en>", " ", "B", "2", "B">>)
 @@ ("Sitzungen - mobile App - B2B" :> <<"S", "i", "t", "z", "u", "n", "g", "e", "n", " ", "-", " ", "m", "o", "b", "i", "l", "e", " ", "A", "p", "p", " ", "-", " ", "B", "2", "B">>)
 @@ ("Sitzungen <en> Browser" :> <<"S", "i", "t", "z", "u", "n", "g", "e", "n", " ", "<en>", " ", "B", "r", "o", "w", "s", "e", "r">>)
 @@ ("Sitzungen - Browser" :> <<"S", "i", "t", "z", "u", "n", "g", "e", "n", " ", "-", " ", "B", "r", "o", "w", "s", "e", "r">>)
 @@ ("Sitzungen <en> Browser <en> B2B" :> <<"S", "i", "t", "z", "u", "n", "g", "e", "n", " ", "<en>", " ", "B", "r", "o", "w", "s", "e", "r", " ", "<en>", " ", "B", "2", "B">>)
 @@ ("Sitzungen - Browser - B2B" :> <<"S", "i", "t", "z", "u", "n", "g", "e", "n", " ", "-", " ", "B", "r", "o", "w", "s", "e", "r", " ", "-", " ", "B", "2", "B">>)
 @@ ("Durchschnittlicher Umsatz/Bestellposten" :> <<"D", "u", "r", "c", "h", "s", "c", "h", "n", "i", "t", "t", "l", "i", "c", "h", "e", "r", " ", "U", "m", "s", "a", "t", "z", "/", "B", "e", "s", "t", "e", "l", "l", "p", "o", "s", "t", "e", "n">>)
 @@ ("Durchschnittlicher Umsatz pro Bestellposten <en> B2B" :> <<"D", "u", "r", "c", "h", "s", "c", "h", "n", "i", "t", "t", "l", "i", "c", "h", "e", "r", " ", "U", "m", "s", "a", "t", "z", " ", "p", "r", "o", " ", "B", "e", "s", "t", "e", "l", "l", "p", "o", "s", "t", "e", "n", " ", "<en>", " ", "B", "2", "B">>)
 @@ ("Prozentsatz Bestellposten pro Sitzung" :> <<"P", "r", "o", "z", "e", "n", "t", "s", "a", "t", "z", " ", "B", "e", "s", "t", "e", "l", "l", "p", "o", "s", "t", "e", "n", " ", "p", "r", "o", " ", "S", "i", "t", "z", "u", "n", "g">>)
 @@ ("Bestellposten pro Sitzung Prozentwert <en> B2B" :> <<"B", "e", "s", "t", "e", "l", "l", "p", "o", "s", "t", "e", "n", " ", "p", "r", "o", " ", "S", "i", "t", "z", "u", "n", "g", " ", "P", "r", "o", "z", "e", "n", "t", "w", "e", "r", "t", " ", "<en>", " ", "B", "2", "B">>)
 @@ ("(Untergeordnete) ASIN" :> <<"(", "U", "n", "t", "e", "r", "g", "e", "o", "r", "d", "n", "e", "t", "e", ")", " ", "A", "S", "I", "N">>)
 @@ ("(<Ue>bergeordnete) ASIN" :> <<"(", "<Ue>", "b", "e", "r", "g", "e", "o", "r", "d", "n", "e", "t", "e", ")", " ", "A", "S", "I", "N">>)
 @@ ("Zeitraum" :> <<"Z", "e", "i", "t", "r", "a", "u", "m">>)
 @@ ("Datum" :> <<"D", "a", "t", "u", "m">>)
 @@ ("Dateiname" :> <<"D", "a", "t", "e", "i", "n", "a", "m", "e">>)
 @@ ("Report_Typ" :> <<"R", "e", "p", "o", "r", "t", "_", "T", "y", "p">>)
 @@ ("Umsatz" :> <<"U", "m", "s", "a", "t", "z">>)
 @@ ("Seitenaufrufe" :> <<"S", "e", "i", "t", "e", "n", "a", "u", "f", "r", "u", "f", "e">>)
 @@ ("Sitzungen" :> <<"S", "i", "t", "z", "u", "n", "g", "e", "n">>)
 @@ ("Bestellungen" :> <<"B", "e", "s", "t", "e", "l", "l", "u", "n", "g", "e", "n">>)
 @@ ("Mobile Sitzungen" :> <<"M", "o", "b", "i", "l", "e", " ", "S", "i", "t", "z", "u", "n", "g", "e", "n">>)
 @@ ("Browser Sitzungen" :> <<"B", "r", "o", "w", "s", "e", "r", " ", "S", "i", "t", "z", "u", "n", "g", "e", "n">>)
 @@ ("Conversion Rate (%)" :> <<"C", "o", "n", "v", "e", "r", "s", "i", "o", "n", " ", "R", "a", "t", "e", " ", "(", "%", ")">>)
 @@ ("AOV (<eur>)" :> <<"A", "O", "V", " ", "(", "<eur>", ")">>)
 @@ ("Revenue per Session (<eur>)" :> <<"R", "e", "v", "e", "n", "u", "e", " ", "p", "e", "r", " ", "S", "e", "s", "s", "i", "o", "n", " ", "(", "<eur>", ")">>)
 @@ ("bestellte einheiten <en> b2b" :> <<"b", "e", "s", "t", "e", "l", "l", "t", "e", " ", "e", "i", "n", "h", "e", "i", "t", "e", "n", " ", "<en>", " ", "b", "2", "b">>)
 @@ ("Bestellte Einheiten <en> B 2B" :> <<"B", "e", "s", "t", "e", "l", "l", "t", "e", " ", "E", "i", "n", "h", "e", "i", "t", "e", "n", " ", "<en>", " ", "B", " ", "2", "B">>)
 @@ ("Bestellte Einheiten<nbsp><en> B2B" :> <<"B", "e", "s", "t", "e", "l", "l", "t", "e", " ", "E", "i", "n", "h", "e", "i", "t", "e", "n", "<nbsp>", "<en>", " ", "B", "2", "B">>)
 @@ (" Bestellsumme <em> B2B " :> <<" ", "B", "e", "s", "t", "e", "l", "l", "s", "u", "m", "m", "e", " ", "<em>", " ", "B", "2", "B", " ">>)
 @@ ("Einheiten" :> <<"E", "i", "n", "h", "e", "i", "t", "e", "n">>)
 @@ ("b2b" :> <<"b", "2", "b">>)
 @@ ("bestellte" :> <<"b", "e", "s", "t", "e", "l", "l", "t", "e">>)
 @@ ("einheiten" :> <<"e", "i", "n", "h", "e", "i", "t", "e", "n">>)
 @@ ("bestellte einheiten" :> <<"b", "e", "s", "t", "e", "l", "l", "t", "e", " ", "e", "i", "n", "h", "e", "i", "t", "e", "n">>)
 @@ ("bestellposten" :> <<"b", "e", "s", "t", "e", "l", "l", "p", "o", "s", "t", "e", "n">>)
 @@ ("sitzung" :> <<"s", "i", "t", "z", "u", "n", "g">>)
 @@ ("sitzungen" :> <<"s", "i", "t", "z", "u", "n", "g", "e", "n">>)
 @@ ("prozentwert" :> <<"p", "r", "o", "z", "e", "n", "t", "w", "e", "r", "t">>)
 @@ ("prozentsatz" :> <<"p", "r", "o", "z", "e", "n", "t", "s", "a", "t", "z">>)
 @@ ("seitenaufrufe" :> <<"s", "e", "i", "t", "e", "n", "a", "u", "f", "r", "u", "f", "e">>)
 @@ ("summe" :> <<"s", "u", "m", "m", "e">>)
 @@ ("views" :> <<"v", "i", "e", "w", "s">>)
 @@ ("1.999,55 <eur>" :> <<"1", ".", "9", "9", "9", ",", "5", "5", " ", "<eur>">>)
 @@ ("368,14 <eur>" :> <<"3", "6", "8", ",", "1", "4", " ", "<eur>">>)
 @@ ("100,00 <eur>" :> <<"1", "0", "0", ",", "0", "0", " ", "<eur>">>)
 @@ ("150,50 <eur>" :> <<"1", "5", "0", ",", "5", "0", " ", "<eur>">>)
 @@ ("9,778" :> <<"9", ",", "7", "7", "8">>)
 @@ ("123,45" :> <<"1", "2", "3", ",", "4", "5">>)
 @@ ("1.234,56" :> <<"1", ".", "2", "3", "4", ",", "5", "6">>)
 @@ ("1,234.56" :> <<"1", ",", "2", "3", "4", ".", "5", "6">>)
 @@ ("1.999" :> <<"1", ".", "9", "9", "9">>)
 @@ ("1.234.567" :> <<"1", ".", "2", "3", "4", ".", "5", "6", "7">>)
 @@ ("1,234,567" :> <<"1", ",", "2", "3", "4", ",", "5", "6", "7">>)
 @@ ("16,40%" :> <<"1", "6", ",", "4", "0", "%">>)
 @@ ("16.40%" :> <<"1", "6", ".", "4", "0", "%">>)
 @@ ("nan" :> <<"n", "a", "n">>)
 @@ ("NaN" :> <<"N", "a", "N">>)
 @@ ("None" :> <<"N", "o", "n", "e">>)
 @@ ("inf" :> <<"i", "n", "f">>)
 @@ ("-5" :> <<"-", "5">>)
 @@ ("50" :> <<"5", "0">>)
 @@ ("01.03.25" :> <<"0", "1", ".", "0", "3", ".", "2", "5">>)
 @@ ("02.03.25" :> <<"0", "2", ".", "0", "3", ".", "2", "5">>)
 @@ ("31.12.99" :> <<"3", "1", ".", "1", "2", ".", "9", "9">>)
 @@ ("15.06.49" :> <<"1", "5", ".", "0", "6", ".", "4", "9">>)
 @@ ("15.06.50" :> <<"1", "5", ".", "0", "6", ".", "5", "0">>)
 @@ (" 01.03.25 " :> <<" ", "0", "1", ".", "0", "3", ".", "2", "5", " ">>)
 @@ ("x01.03.25y" :> <<"x", "0", "1", ".", "0", "3", ".", "2", "5", "y">>)
 @@ ("1.3.25" :> <<"1", ".", "3", ".", "2", "5">>)
 @@ ("01.03.2025" :> <<"0", "1", ".", "0", "3", ".", "2", "0", "2", "5">>)
 @@ ("2025-03-01" :> <<"2", "0", "2", "5", "-", "0", "3", "-", "0", "1">>)
 @@ ("BusinessReport-01.03.25.csv" :> <<"B", "u", "s", "i", "n", "e", "s", "s", "R", "e", "p", "o", "r", "t", "-", "0", "1", ".", "0", "3", ".", "2", "5", ".", "c", "s", "v">>)
 @@ ("BusinessReport-02.03.25.csv" :> <<"B", "u", "s", "i", "n", "e", "s", "s", "R", "e", "p", "o", "r", "t", "-", "0", "2", ".", "0", "3", ".", "2", "5", ".", "c", "s", "v">>)
 @@ ("report.csv" :> <<"r", "e", "p", "o", "r", "t", ".", "c", "s", "v">>)
 @@ ("B001" :> <<"B", "0", "0", "1">>)
 @@ ("B002" :> <<"B", "0", "0", "2">>)
 @@ ("B003" :> <<"B", "0", "0", "3">>)
 @@ ("2025-03-02" :> <<"2", "0", "2", "5", "-", "0", "3", "-", "0", "2">>)
 @@ ("2025-03-03" :> <<"2", "0", "2", "5", "-", "0", "3", "-", "0", "3">>)
 @@ ("2025-04-01" :> <<"2", "0", "2", "5", "-", "0", "4", "-", "0", "1">>)
 @@ ("ASIN-Level" :> <<"A", "S", "I", "N", "-", "L", "e", "v", "e", "l">>)
 @@ ("Account-Level" :> <<"A", "c", "c", "o", "u", "n", "t", "-", "L", "e", "v", "e", "l">>)
 @@ ("ASIN" :> <<"A", "S", "I", "N">>)
 @@ ("Zeitraum_DT" :> <<"Z", "e", "i", "t", "r", "a", "u", "m", "_", "D", "T">>)
 @@ ("Zeitraum_Agg" :> <<"Z", "e", "i", "t", "r", "a", "u", "m", "_", "A", "g", "g">>)
 @@ ("Zeitraum_Nr" :> <<"Z", "e", "i", "t", "r", "a", "u", "m", "_", "N", "r">>)
 @@ ("Jahr" :> <<"J", "a", "h", "r">>)
 @@ ("Traffic_Typ" :> <<"T", "r", "a", "f", "f", "i", "c", "_", "T", "y", "p">>)
 @@ (" (YTD)" :> <<" ", "(", "Y", "T", "D", ")">>)
 @@ ("03.03.25" :> <<"0", "3", ".", "0", "3", ".", "2", "5">>)
 @@ ("BusinessReport-03.03.25.csv" :> <<"B", "u", "s", "i", "n", "e", "s", "s", "R", "e", "p", "o", "r", "t", "-", "0", "3", ".", "0", "3", ".", "2", "5", ".", "c", "s", "v">>)
 @@ ("BusinessReport-01.03.25 (1).csv" :> <<"B", "u", "s", "i", "n", "e", "s", "s", "R", "e", "p", "o", "r", "t", "-", "0", "1", ".", "0", "3", ".", "2", "5", " ", "(", "1", ")", ".", "c", "s", "v">>)
 @@ ("BusinessReport-01.03.25 (2).csv" :> <<"B", "u", "s", "i", "n", "e", "s", "s", "R", "e", "p", "o", "r", "t", "-", "0", "1", ".", "0", "3", ".", "2", "5", " ", "(", "2", ")", ".", "c", "s", "v">>)
 @@ ("durchschnittlicher" :> <<"d", "u", "r", "c", "h", "s", "c", "h", "n", "i", "t", "t", "l", "i", "c", "h", "e", "r">>)
 @@ ("umsatz" :> <<"u", "m", "s", "a", "t", "z">>)
 @@ ("bestellsumme" :> <<"b", "e", "s", "t", "e", "l", "l", "s", "u", "m", "m", "e">>)
 @@ ("mobile" :> <<"m", "o", "b", "i", "l", "e">>)
 @@ ("browser" :> <<"b", "r", "o", "w", "s", "e", "r">>)
 @@ ("zahl der" :> <<"z", "a", "h", "l", " ", "d", "e", "r">>)
 @@ ("Bestellsumme" :> <<"B", "e", "s", "t", "e", "l", "l", "s", "u", "m", "m", "e">>)
 @@ ("Verkaufspreis" :> <<"V", "e", "r", "k", "a", "u", "f", "s", "p", "r", "e", "i", "s">>)
 @@ ("Prozentsatz" :> <<"P", "r", "o", "z", "e", "n", "t", "s", "a", "t", "z">>)
 @@ ("Prozentwert" :> <<"P", "r", "o", "z", "e", "n", "t", "w", "e", "r", "t">>)
 @@ ("Titel" :> <<"T", "i", "t", "e", "l">>)
 @@ ("Report_15.06.49.csv" :> <<"R", "e", "p", "o", "r", "t", "_", "1", "5", ".", "0", "6", ".", "4", "9", ".", "c", "s", "v">>)
 @@ ("Report_15.06.50.csv" :> <<"R", "e", "p", "o", "r", "t", "_", "1", "5", ".", "0", "6", ".", "5", "0", ".", "c", "s", "v">>)
 @@ ("Report_31.12.99.csv" :> <<"R", "e", "p", "o", "r", "t", "_", "3", "1", ".", "1", "2", ".", "9", "9", ".", "c", "s", "v">>)
 @@ ("01.03.25-02.03.25.csv" :> <<"0", "1", ".", "0", "3", ".", "2", "5", "-", "0", "2", ".", "0", "3", ".", "2", "5", ".", "c", "s", "v">>)
 @@ ("123.45.678.csv" :> <<"1", "2", "3", ".", "4", "5", ".", "6", "7", "8", ".", "c", "s", "v">>)
 @@ ("Report 1.3.25.csv" :> <<"R", "e", "p", "o", "r", "t", " ", "1", ".", "3", ".", "2", "5", ".", "c", "s", "v">>)
 @@ ("Report_2025-03-01.csv" :> <<"R", "e", "p", "o", "r", "t", "_", "2", "0", "2", "5", "-", "0", "3", "-", "0", "1", ".", "c", "s", "v">>)
 @@ ("99.99.25" :> <<"9", "9", ".", "9", "9", ".", "2", "5">>)
 @@ ("0" :> <<"0">>)
 @@ ("x" :> <<"x">>)
 @@ ("7" :> <<"7">>)
 @@ ("12" :> <<"1", "2">>)
 @@ ("1,5 <eur>" :> <<"1", ",", "5", " ", "<eur>">>)
 @@ ("5,00%" :> <<"5", ",", "0", "0", "%">>)
 @@ ("1999-12-31" :> <<"1", "9", "9", "9", "-", "1", "2", "-", "3", "1">>)
 @@ ("1,234.567,89" :> <<"1", ",", "2", "3", "4", ".", "5", "6", "7", ",", "8", "9">>)
 @@ ("1.234.567,89" :> <<"1", ".", "2", "3", "4", ".", "5", "6", "7", ",", "8", "9">>)
 @@ ("1,234,567.89" :> <<"1", ",", "2", "3", "4", ",", "5", "6", "7", ".", "8", "9">>)
 @@ ("12.345,6 <eur>" :> <<"1", "2", ".", "3", "4", "5", ",", "6", " ", "<eur>">>)
 @@ ("10" :> <<"1", "0">>)
 @@ ("8" :> <<"8">>)
 @@ ("60" :> <<"6", "0">>)

(***************************************************************************)
(* Python values.                                                          *)
(***************************************************************************)
None == [t |-> "None"]
NaN == [k |-> "nan"]
Inf(sign) == [k |-> "inf", sign |-> sign]

Abs(n) == IF n < 0 THEN -n ELSE n

RECURSIVE GCD(_, _)
GCD(a, b) == IF b = 0 THEN a ELSE GCD(b, a % b)

\* the finite float n/d (d > 0), reduced
Fin(n, d) ==
    LET g == GCD(Abs(n), d)
    IN  [k |-> "fin", num |-> n \div g, den |-> d \div g]

Zero == Fin(0, 1)

\* an exception leaving the evaluated expression
Raise(exc) == [k |-> "raise", exc |-> exc]

Str(s) == [t |-> "str", s |-> s]

Digits == {"0", "1", "2", "3", "4", "5", "6", "7", "8", "9"}

DigitVal ==
    ("0" :> 0) @@ ("1" :> 1) @@ ("2" :> 2) @@ ("3" :> 3) @@ ("4" :> 4) @@
    ("5" :> 5) @@ ("6" :> 6) @@ ("7" :> 7) @@ ("8" :> 8) @@ ("9" :> 9)

\* what str.strip() and float() take off both ends
Whitespace == {" ", "\t", "<nbsp>"}

LowerOf ==
    ("A" :> "a") @@ ("B" :> "b") @@ ("C" :> "c") @@ ("D" :> "d") @@ ("E" :> "e") @@
    ("F" :> "f") @@ ("G" :> "g") @@ ("H" :> "h") @@ ("I" :> "i") @@ ("J" :> "j") @@
    ("K" :> "k") @@ ("L" :> "l") @@ ("M" :> "m") @@ ("N" :> "n") @@ ("O" :> "o") @@
    ("P" :> "p") @@ ("Q" :> "q") @@ ("R" :> "r") @@ ("S" :> "s") @@ ("T" :> "t") @@
    ("U" :> "u") @@ ("V" :> "v") @@ ("W" :> "w") @@ ("X" :> "x") @@ ("Y" :> "y") @@
    ("Z" :> "z") @@ ("<Ue>" :> "<ue>")

MinOf(S) == CHOOSE x \in S : \A y \in S : x <= y
MaxOf(S) == CHOOSE x \in S : \A y \in S : x >= y

\* str.lower()
Lower(s) == [i \in 1..Len(s) |-> IF s[i] \in DOMAIN LowerOf THEN LowerOf[s[i]] ELSE s[i]]

\* str.replace(c, '')
RemoveChar(s, c) == SelectSeq(s, LAMBDA x : x # c)

\* str.replace(c, r) for single characters
ReplaceChar(s, c, r) == [i \in 1..Len(s) |-> IF s[i] = c THEN r ELSE s[i]]

\* str.strip()
Strip(s) ==
    LET keep == {i \in 1..Len(s) : s[i] \notin Whitespace}
    IN  IF keep = {} THEN <<>> ELSE SubSeq(s, MinOf(keep), MaxOf(keep))

\* str.count(c)
Count(s, c) == Cardinality({i \in 1..Len(s) : s[i] = c})

\* c in s, for a single character
HasChar(s, c) == \E i \in 1..Len(s) : s[i] = c

\* str.find(c) of a character that occurs, counted from 1
Find(s, c) == MinOf({i \in 1..Len(s) : s[i] = c})

\* sub in s
Contains(s, sub) ==
    \E i \in 0..(Len(s) - Len(sub)) : \A j \in 1..Len(sub) : s[i + j] = sub[j]

RECURSIVE DigitsValue(_)
\* int() of a run of digits
DigitsValue(s) ==
    IF Len(s) = 0 THEN 0
    ELSE DigitsValue(SubSeq(s, 1, Len(s) - 1)) * 10 + DigitVal[s[Len(s)]]

RECURSIVE Pow10(_)
Pow10(n) == IF n = 0 THEN 1 ELSE 10 * Pow10(n - 1)

RECURSIVE NatStr(_)
NatStr(n) == IF n < 10 THEN <<CHOOSE c \in Digits : DigitVal[c] = n>>
             ELSE NatStr(n \div 10) \o <<CHOOSE c \in Digits : DigitVal[c] = n % 10>>

\* float(s) of a text: the decimal literals, nan and inf; a text this grammar
\* rejects raises ValueError (exponents and digit-group underscores are not
\* in the alphabet of the model)
PyFloat(s) ==
    LET t == Strip(s)
        signed == Len(t) > 0 /\ t[1] \in {"+", "-"}
        sign == IF Len(t) > 0 /\ t[1] = "-" THEN -1 ELSE 1
        body == IF signed THEN Tail(t) ELSE t
        digs == SelectSeq(body, LAMBDA c : c \in Digits)
        decimal == /\ Len(digs) > 0
                   /\ Count(body, ".") <= 1
                   /\ \A i \in 1..Len(body) : body[i] \in Digits \cup {"."}
        frac == IF HasChar(body, ".") THEN Len(body) - Find(body, ".") ELSE 0
        word == Lower(body)
    IN  IF decimal THEN Fin(sign * DigitsValue(digs), Pow10(frac))
        ELSE IF word = <<"n", "a", "n">> THEN NaN
        ELSE IF word \in {<<"i", "n", "f">>, <<"i", "n", "f", "i", "n", "i", "t", "y">>}
             THEN Inf(sign)
        ELSE Raise("ValueError")

\* pd.isna(value) of a scalar
isna(v) == v.t = "None" \/ (v.t = "float" /\ v.v.k = "nan")

\* value == ''
IsEmpty(v) == v.t = "str" /\ Len(v.s) = 0

\* isinstance(value, (int, float))
IsNumber(v) == v.t \in {"int", "float"}

\* float(value) of an int or a float
ToFloat(v) == IF v.t = "int" THEN Fin(v.i, 1) ELSE v.v

\* str(value)
PyStr(v) ==
    IF v.t = "str" THEN v.s
    ELSE IF v.t = "int" THEN (IF v.i < 0 THEN <<"-">> \o NatStr(-v.i) ELSE NatStr(v.i))
    ELSE IF v.t = "None" THEN <<"N", "o", "n", "e">>
    ELSE IF v.v.k = "nan" THEN <<"n", "a", "n">>
    ELSE IF v.v.k = "inf" THEN (IF v.v.sign < 0 THEN <<"-">> ELSE <<>>) \o <<"i", "n", "f">>
    ELSE (IF v.v.num < 0 THEN <<"-">> ELSE <<>>)
         \o NatStr(Abs(v.v.num) \div v.v.den) \o <<".">>
         \o NatStr(((Abs(v.v.num) % v.v.den) * 10) \div v.v.den)

\* try: return float(value_str) / except <caught>: return 0.0
TryFloat(s, caught) ==
    LET r == PyFloat(s)
    IN  IF r.k = "raise" /\ r.exc \in caught THEN Zero ELSE r

Exceptions == {"ValueError", "TypeError", "OverflowError", "KeyError"}

(***************************************************************************)
(* The value normalizers.                                                  *)
(***************************************************************************)
parse_euro_value_unguarded(v) ==
    IF isna(v) \/ IsEmpty(v) THEN Zero
    ELSE IF IsNumber(v) THEN ToFloat(v)
    ELSE LET s == Strip(RemoveChar(RemoveChar(PyStr(v), " "), "<eur>"))
         IN  PyFloat(IF HasChar(s, ".") /\ HasChar(s, ",")
                        THEN ReplaceChar(RemoveChar(s, "."), ",", ".")
                     ELSE IF HasChar(s, ",") THEN ReplaceChar(s, ",", ".")
                     ELSE IF Count(s, ".") > 1 THEN RemoveChar(s, ".")
                     ELSE s)

\* parse_euro_value with the dots of a text with a comma kept
parse_euro_value_keeping_dots(v) ==
    IF isna(v) \/ IsEmpty(v) THEN Zero
    ELSE IF IsNumber(v) THEN ToFloat(v)
    ELSE LET s == Strip(RemoveChar(RemoveChar(PyStr(v), " "), "<eur>"))
         IN  TryFloat(IF HasChar(s, ",") THEN ReplaceChar(s, ",", ".")
                      ELSE IF Count(s, ".") > 1 THEN RemoveChar(s, ".")
                      ELSE s,
                      Exceptions)

parse_euro_value(v) ==
    IF isna(v) \/ IsEmpty(v) THEN Zero
    ELSE IF IsNumber(v) THEN ToFloat(v)
    ELSE LET s == Strip(RemoveChar(RemoveChar(PyStr(v), " "), "<eur>"))
         IN  TryFloat(IF HasChar(s, ".") /\ HasChar(s, ",")
                         THEN ReplaceChar(RemoveChar(s, "."), ",", ".")
                      ELSE IF HasChar(s, ",") THEN ReplaceChar(s, ",", ".")
                      ELSE IF Count(s, ".") > 1 THEN RemoveChar(s, ".")
                      ELSE s,
                      Exceptions)

parse_percentage(v) ==
    IF isna(v) \/ IsEmpty(v) THEN Zero
    ELSE IF IsNumber(v) THEN ToFloat(v)
    ELSE LET s == Strip(RemoveChar(RemoveChar(PyStr(v), "%"), " "))
         IN  TryFloat(IF HasChar(s, ",") THEN ReplaceChar(s, ",", ".") ELSE s, Exceptions)

\* parse_numeric_value with a single comma always read as the decimal point
parse_numeric_value_comma_decimal(v) ==
    IF isna(v) \/ IsEmpty(v) \/ v.t = "None" THEN Zero
    ELSE IF IsNumber(v) THEN ToFloat(v)
    ELSE LET s == Strip(RemoveChar(PyStr(v), " "))
         IN  IF Len(s) = 0 \/ Lower(s) = <<"n", "a", "n">> \/ Lower(s) = <<"n", "o", "n", "e">>
             THEN Zero
             ELSE TryFloat(
                    IF HasChar(s, ".") /\ HasChar(s, ",")
                      THEN (IF Find(s, ".") < Find(s, ",")
                              THEN ReplaceChar(RemoveChar(s, "."), ",", ".")
                              ELSE RemoveChar(s, ","))
                    ELSE IF HasChar(s, ",")
                      THEN (IF Count(s, ",") = 1 THEN ReplaceChar(s, ",", ".")
                            ELSE RemoveChar(s, ","))
                    ELSE IF Count(s, ".") > 1 THEN RemoveChar(s, ".")
                    ELSE s,
                    {"ValueError", "TypeError"})

\* parse_numeric_value with every dot of a text without comma removed
parse_numeric_value_dots_grouped(v) ==
    IF isna(v) \/ IsEmpty(v) \/ v.t = "None" THEN Zero
    ELSE IF IsNumber(v) THEN ToFloat(v)
    ELSE LET s == Strip(RemoveChar(PyStr(v), " "))
             nparts == Count(s, ",") + 1
             second == Len(s) - Find(s, ",")
         IN  IF Len(s) = 0 \/ Lower(s) = <<"n", "a", "n">> \/ Lower(s) = <<"n", "o", "n", "e">>
             THEN Zero
             ELSE TryFloat(
                    IF HasChar(s, ".") /\ HasChar(s, ",")
                      THEN (IF Find(s, ".") < Find(s, ",")
                              THEN ReplaceChar(RemoveChar(s, "."), ",", ".")
                              ELSE RemoveChar(s, ","))
                    ELSE IF HasChar(s, ",")
                      THEN (IF nparts = 2
                              THEN (IF second <= 2 THEN ReplaceChar(s, ",", ".")
                                    ELSE RemoveChar(s, ","))
                              ELSE RemoveChar(s, ","))
                    ELSE RemoveChar(s, "."),
                    {"ValueError", "TypeError"})

parse_numeric_value(v) ==
    IF isna(v) \/ IsEmpty(v) \/ v.t = "None" THEN Zero
    ELSE IF IsNumber(v) THEN ToFloat(v)
    ELSE LET s == Strip(RemoveChar(PyStr(v), " "))
             nparts == Count(s, ",") + 1
             second == Len(s) - Find(s, ",")
         IN  IF Len(s) = 0 \/ Lower(s) = <<"n", "a", "n">> \/ Lower(s) = <<"n", "o", "n", "e">>
             THEN Zero
             ELSE TryFloat(
                    IF HasChar(s, ".") /\ HasChar(s, ",")
                      THEN (IF Find(s, ".") < Find(s, ",")
                              THEN ReplaceChar(RemoveChar(s, "."), ",", ".")
                              ELSE RemoveChar(s, ","))
                    ELSE IF HasChar(s, ",")
                      THEN (IF nparts = 2
                              THEN (IF second <= 2 THEN ReplaceChar(s, ",", ".")
                                    ELSE RemoveChar(s, ","))
                              ELSE RemoveChar(s, ","))
                    ELSE IF Count(s, ".") > 1 THEN RemoveChar(s, ".")
                    ELSE s,
                    {"ValueError", "TypeError"})

\* re.search(r'(\d{2})\.(\d{2})\.(\d{2})', s): where the leftmost match
\* starts, 0 when there is none
DateSearch(s) ==
    LET hits == {i \in 1..(Len(s) - 7) :
                    /\ \A j \in {0, 1, 3, 4, 6, 7} : s[i + j] \in Digits
                    /\ s[i + 2] = "." /\ s[i + 5] = "."}
    IN  IF hits = {} THEN 0 ELSE MinOf(hits)

\* the YYYY-MM-DD text of the match at i
DateText(s, i) ==
    (IF DigitsValue(SubSeq(s, i + 6, i + 7)) < 50 THEN <<"2", "0">> ELSE <<"1", "9">>)
    \o SubSeq(s, i + 6, i + 7) \o <<"-">> \o SubSeq(s, i + 3, i + 4)
    \o <<"-">> \o SubSeq(s, i, i + 1)

parse_date_column(date_str) ==
    IF isna(date_str) \/ IsEmpty(date_str) THEN None
    ELSE LET s == Strip(PyStr(date_str))
         IN  IF DateSearch(s) # 0 THEN Str(DateText(s, DateSearch(s))) ELSE Str(s)

(***************************************************************************)
(* The column resolver.  A header list is a sequence of header names.      *)
(***************************************************************************)
NotFound == "<None>"

\* col.strip().replace(en dash, '-').replace(em dash, '-').replace(' ', '').lower()
Normalize(s) ==
    Lower(RemoveChar(ReplaceChar(ReplaceChar(Strip(s), "<en>", "-"), "<em>", "-"), " "))

\* the words of str.split() that are longer than 2 characters
Keywords(s) ==
    LET starts == {i \in 1..Len(s) : s[i] \notin Whitespace
                                      /\ (i = 1 \/ s[i - 1] \in Whitespace)}
        end(i) == MinOf({j \in i..Len(s) : j = Len(s) \/ s[j + 1] \in Whitespace})
    IN  {SubSeq(s, i, end(i)) : i \in {k \in starts : end(k) - k + 1 > 2}}

\* Table(f) is the function f, written out argument by argument
Table(f) == f @@ <<>>

\* of every named text: text.lower(), its normal form, and the keywords of
\* text.lower()
LowerText == Table([id \in DOMAIN Chars |-> Table(Lower(Chars[id]))])
NormalText == Table([id \in DOMAIN Chars |-> Table(Normalize(Chars[id]))])
KeywordsOf == Table([id \in DOMAIN Chars |-> Keywords(LowerText[id])])

\* 'b2b' in name.lower()
HasB2B(name) == Contains(LowerText[name], Chars["b2b"])

\* any('b2b' in name.lower() for name in possible_names)
is_b2b_search(names) == \E i \in 1..Len(names) : HasB2B(names[i])

\* the test of the third loop of find_column on one candidate and one header
KeywordMatch(name, col, b2b) ==
    LET col_lower == LowerText[col]
    IN  /\ ~(b2b /\ ~Contains(col_lower, Chars["b2b"]))
        /\ ~(b2b /\ Contains(col_lower, Chars["bestellte"])
                 /\ Contains(col_lower, Chars["einheiten"])
                 /\ ~Contains(col_lower, Chars["b2b"]))
        /\ \A kw \in KeywordsOf[name] : Contains(col_lower, kw)

\* a resolver that tries the three rules candidate by candidate
find_column_by_candidate(cols, names) ==
    LET C == 1..Len(cols)
        N == 1..Len(names)
        same(i, j) == NormalText[cols[j]] = NormalText[names[i]]
        b2b == is_b2b_search(names)
        hit(i) == \E j \in C : \/ cols[j] = names[i]
                                \/ same(i, j)
                                \/ KeywordMatch(names[i], cols[j], b2b)
        hits == {i \in N : hit(i)}
        first == MinOf(hits)
    IN  IF hits = {} THEN NotFound
        ELSE IF \E j \in C : cols[j] = names[first] THEN names[first]
        ELSE IF \E j \in C : same(first, j)
          THEN cols[MaxOf({j \in C : same(first, j)})]
        ELSE cols[MinOf({j \in C : KeywordMatch(names[first], cols[j], b2b)})]

find_column(cols, names) ==
    LET C == 1..Len(cols)
        N == 1..Len(names)
        exact == {i \in N : \E j \in C : cols[j] = names[i]}
        same(i, j) == NormalText[cols[j]] = NormalText[names[i]]
        normalized == {i \in N : \E j \in C : same(i, j)}
        b2b == is_b2b_search(names)
        keyword == {i \in N : \E j \in C : KeywordMatch(names[i], cols[j], b2b)}
    IN  IF exact # {} THEN names[MinOf(exact)]
        \* normalized_columns is a dict: of two headers that normalize alike
        \* the later one is kept
        ELSE IF normalized # {}
          THEN cols[MaxOf({j \in C : same(MinOf(normalized), j)})]
        ELSE IF keyword # {}
          THEN cols[MinOf({j \in C :
                             KeywordMatch(names[MinOf(keyword)], cols[j], b2b)})]
        ELSE NotFound


(***************************************************************************)
(* Float arithmetic as numpy does it on float64 columns.                   *)
(***************************************************************************)
Sign(n) == IF n < 0 THEN -1 ELSE 1

\* a + b
AddF(a, b) ==
    IF a.k = "nan" \/ b.k = "nan" THEN NaN
    ELSE IF a.k = "inf" THEN (IF b.k = "inf" /\ b.sign # a.sign THEN NaN ELSE a)
    ELSE IF b.k = "inf" THEN b
    ELSE Fin(a.num * b.den + b.num * a.den, a.den * b.den)

\* a / b; a finite value over 0 is an infinity, 0 / 0 is NaN
DivF(a, b) ==
    IF a.k = "nan" \/ b.k = "nan" THEN NaN
    ELSE IF a.k = "inf" THEN (IF b.k = "inf" THEN NaN
                              ELSE Inf(a.sign * Sign(b.num)))
    ELSE IF b.k = "inf" THEN Zero
    ELSE IF b.num = 0 THEN (IF a.num = 0 THEN NaN ELSE Inf(Sign(a.num)))
    ELSE Fin(Sign(b.num) * a.num * b.den, a.den * Abs(b.num))

\* a * n for an integer n > 0
MulF(a, n) == IF a.k = "fin" THEN Fin(a.num * n, a.den) ELSE a

\* a > 0
Positive(a) == (a.k = "fin" /\ a.num > 0) \/ (a.k = "inf" /\ a.sign > 0)

\* a < b on floats; every comparison with NaN is false
LessF(a, b) ==
    IF a.k = "nan" \/ b.k = "nan" THEN FALSE
    ELSE IF a.k = "inf" THEN a.sign < 0 /\ ~(b.k = "inf" /\ b.sign < 0)
    ELSE IF b.k = "inf" THEN b.sign > 0
    ELSE a.num * b.den < b.num * a.den

\* Series.replace(0, np.nan)
ReplaceZero(a) == IF a.k = "fin" /\ a.num = 0 THEN NaN ELSE a

\* Series.fillna(0)
FillNa(a) == IF a.k = "nan" THEN Zero ELSE a

\* Series.replace([np.inf, -np.inf], 0)
ReplaceInf(a) == IF a.k = "inf" THEN Zero ELSE a

\* (a / b.replace(0, np.nan)).fillna(0).replace([np.inf, -np.inf], 0)
GuardedRatio(a, b) == ReplaceInf(FillNa(DivF(a, ReplaceZero(b))))

\* (a / b.replace(0, np.nan) * 100).fillna(0).replace([np.inf, -np.inf], 0)
GuardedPercent(a, b) == ReplaceInf(FillNa(MulF(DivF(a, ReplaceZero(b)), 100)))


(***************************************************************************)
(* Data frames.  A frame has its header list and its rows; a row maps each *)
(* header to a cell.  A numeric cell is a float or an int, a text cell a   *)
(* str.                                                                    *)
(***************************************************************************)
Frame(cols, rows) ==
    [columns |-> cols, rows |-> Table([i \in 1..Len(rows) |-> Table(rows[i])])]

Range(s) == {s[i] : i \in 1..Len(s)}

FloatCell(x) == [t |-> "float", v |-> x]
IntCell(n) == [t |-> "int", i |-> n]
Text(id) == Str(Chars[id])

\* name in df.columns
HasColumn(cols, name) == \E i \in 1..Len(cols) : cols[i] = name

\* df.columns after df[name] = ...
WithColumn(cols, name) == IF HasColumn(cols, name) THEN cols ELSE Append(cols, name)

\* df[name] = cell: the column is overwritten, or added as the last one
SetColumn(df, name, cell) ==
    LET cols == WithColumn(df.columns, name)
    IN  Frame(cols,
              [i \in 1..Len(df.rows) |->
                  [h \in Range(cols) |-> IF h = name THEN cell ELSE df.rows[i][h]]])

RECURSIVE SetColumns(_, _, _)
\* df[name] = cell for the names of a list, one after the other
SetColumns(df, names, cell) ==
    IF names = <<>> THEN df
    ELSE SetColumns(SetColumn(df, Head(names), cell), Tail(names), cell)

\* df[name] = df[name].apply(f)
ApplyColumn(df, name, f(_)) ==
    Frame(df.columns,
          [i \in 1..Len(df.rows) |->
              [h \in Range(df.columns) |->
                  IF h = name THEN f(df.rows[i][h]) ELSE df.rows[i][h]]])

\* the frame without repeated header names (the first of each is kept)
FirstOfEach(s) == SelectSeq([i \in 1..Len(s) |-> IF \E j \in 1..(i - 1) : s[j] = s[i]
                                                    THEN NotFound ELSE s[i]],
                            LAMBDA x : x # NotFound)

\* the float of a numeric cell
Num(cell) == ToFloat(cell)

\* the dtype of a column is object as soon as one of its cells is a str
IsObject(df, name) == \E i \in 1..Len(df.rows) : df.rows[i][name].t \in {"str", "None"}

RECURSIVE SumF(_)
\* Series.sum(): NaN cells are skipped
SumF(xs) == IF xs = <<>> THEN Zero
            ELSE IF Head(xs).k = "nan" THEN SumF(Tail(xs))
            ELSE AddF(Head(xs), SumF(Tail(xs)))

\* Series.mean(): NaN cells are skipped, the mean of no cell is NaN
MeanF(xs) ==
    LET kept == SelectSeq(xs, LAMBDA x : x.k # "nan")
    IN  IF kept = <<>> THEN NaN ELSE DivF(SumF(kept), Fin(Len(kept), 1))

\* the cells of a column in the rows of a list, as floats
ColumnOf(rows, name) == [i \in 1..Len(rows) |-> Num(rows[i][name])]

(***************************************************************************)
(* The order of texts (str comparison by code point).                      *)
(***************************************************************************)
Ascii ==
    <<" ", "!", "#", "$", "%", "&", "'", "(", ")", "*", "+", ",", "-", ".", "/",
      "0", "1", "2", "3", "4", "5", "6", "7", "8", "9", ":", ";", "<", "=", ">", "?",
      "@", "A", "B", "C", "D", "E", "F", "G", "H", "I", "J", "K", "L", "M", "N", "O",
      "P", "Q", "R", "S", "T", "U", "V", "W", "X", "Y", "Z", "[", "]", "^", "_",
      "a", "b", "c", "d", "e", "f", "g", "h", "i", "j", "k", "l", "m", "n", "o",
      "p", "q", "r", "s", "t", "u", "v", "w", "x", "y", "z", "{", "|", "}", "~",
      "<nbsp>", "<Ue>", "<ue>", "<en>", "<em>", "<eur>">>

\* ord(c), up to an order-preserving renumbering
Ord(c) == CHOOSE i \in 1..Len(Ascii) : Ascii[i] = c

\* a < b for two texts
TextLess(a, b) ==
    \E i \in 1..(Len(a) + 1) :
        /\ i <= Len(b)
        /\ \A j \in 1..(i - 1) : a[j] = b[j]
        /\ (i = Len(a) + 1 \/ Ord(a[i]) < Ord(b[i]))

RECURSIVE SortTexts(_)
\* sorted(S) for a set of texts
SortTexts(S) ==
    IF S = {} THEN <<>>
    ELSE LET least == CHOOSE x \in S : \A y \in S \ {x} : TextLess(x, y)
         IN  <<least>> \o SortTexts(S \ {least})

(***************************************************************************)
(* aggregate_data: the columns of the selected traffic segment.            *)
(***************************************************************************)
TrafficTypes == {"normal", "B2B"}

\* col.lower() of a header, and keyword in col.lower()
ColLower(col) == LowerText[col]
InLower(col, keyword) == Contains(ColLower(col), Chars[keyword])

\* the first header of the list that passes a test, None when none does
FirstColumn(cols, Test(_)) ==
    LET hits == {i \in 1..Len(cols) : Test(cols[i])}
    IN  IF hits = {} THEN NotFound ELSE cols[MinOf(hits)]

\* the first units header of any traffic segment: the search without its
\* tests for 'b2b'
find_b2b_units_column_any_segment(cols) ==
    FirstColumn(cols, LAMBDA col : InLower(col, "bestellte") /\ InLower(col, "einheiten"))

\* lines 429-436: the first header with 'bestellte', 'einheiten' and 'b2b'
\* in its lower case
find_b2b_units_column(cols) ==
    FirstColumn(cols, LAMBDA col :
        /\ InLower(col, "bestellte") /\ InLower(col, "einheiten") /\ InLower(col, "b2b")
        /\ InLower(col, "bestellte einheiten") /\ InLower(col, "b2b"))

\* lines 438-452: the report's own conversion-rate column of the segment
find_cr_column(cols, traffic_type) ==
    IF traffic_type = "B2B"
      THEN FirstColumn(cols, LAMBDA col :
               /\ InLower(col, "bestellposten") /\ InLower(col, "sitzung")
               /\ InLower(col, "prozentwert") /\ InLower(col, "b2b"))
      ELSE FirstColumn(cols, LAMBDA col :
               /\ InLower(col, "bestellposten") /\ InLower(col, "sitzung")
               /\ InLower(col, "prozentsatz") /\ ~InLower(col, "b2b"))

\* the header lists of lines 467-516 and 730
b2b_revenue_candidates == <<"Bestellsumme <en> B2B", "Bestellsumme - B2B">>
b2b_views_candidates ==
    <<"Seitenaufrufe <en> Summe <en> B2B", "Seitenaufrufe - Summe - B2B",
      "Sitzungen <en> Summe <en> B2B", "Sitzungen - Summe - B2B">>
b2b_sessions_candidates == <<"Sitzungen <en> Summe <en> B2B", "Sitzungen - Summe - B2B">>
b2b_orders_candidates == <<"Zahl der Bestellposten <en> B2B", "Zahl der Bestellposten - B2B">>
b2b_mobile_candidates ==
    <<"Sitzungen <en> mobile App <en> B2B", "Sitzungen - mobile App - B2B">>
b2b_browser_candidates ==
    <<"Sitzungen <en> Browser <en> B2B", "Sitzungen - Browser - B2B">>
b2b_units_names == <<"Bestellte Einheiten <en> B2B", "Bestellte Einheiten - B2B">>

\* for candidate in candidates: if candidate in df.columns: ... break
FirstExact(cols, candidates) ==
    LET hits == {i \in 1..Len(candidates) : HasColumn(cols, candidates[i])}
    IN  IF hits = {} THEN NotFound ELSE candidates[MinOf(hits)]

\* the exact candidates first, then find_column
ExactOrFind(cols, candidates) ==
    IF FirstExact(cols, candidates) # NotFound THEN FirstExact(cols, candidates)
    ELSE find_column(cols, candidates)

\* lines 456-533: what the searches find in the headers c (the headers of
\* df after line 465)
SearchColumns(c, traffic_type) ==
    IF traffic_type = "B2B"
      THEN [units_col |-> find_b2b_units_column(c),
            revenue_col |-> ExactOrFind(c, b2b_revenue_candidates),
            views_col |-> ExactOrFind(c, b2b_views_candidates),
            sessions_col |-> FirstExact(c, b2b_sessions_candidates),
            orders_col |-> ExactOrFind(c, b2b_orders_candidates),
            mobile_sessions_col |-> ExactOrFind(c, b2b_mobile_candidates),
            browser_sessions_col |-> ExactOrFind(c, b2b_browser_candidates),
            columns |-> c, missing_cols |-> <<>>]
      ELSE [units_col |-> find_column(c, <<"Bestellte Einheiten">>),
            revenue_col |-> find_column(c, <<"Durch bestellte Produkte erzielter Umsatz">>),
            views_col |-> find_column(c, <<"Seitenaufrufe <en> Summe", "Seitenaufrufe - Summe",
                                           "Sitzungen <en> Summe", "Sitzungen - Summe">>),
            sessions_col |-> find_column(c, <<"Sitzungen <en> Summe", "Sitzungen - Summe">>),
            orders_col |-> find_column(c, <<"Zahl der Bestellposten">>),
            mobile_sessions_col |-> find_column(c, <<"Sitzungen <en> mobile App",
                                                     "Sitzungen - mobile App">>),
            browser_sessions_col |-> find_column(c, <<"Sitzungen <en> Browser",
                                                      "Sitzungen - Browser">>),
            columns |-> c, missing_cols |-> <<>>]

\* lines 461-465, then the searches: without a B2B units header the column
\* 'Bestellte Einheiten - B2B' (with the en dash) is added first
FirstSearch(cols0, traffic_type) ==
    SearchColumns(IF traffic_type = "B2B" /\ find_b2b_units_column(cols0) = NotFound
                    THEN Append(cols0, "Bestellte Einheiten <en> B2B") ELSE cols0,
                  traffic_type)

\* the block of a column that no header was found for, without its
\* statement df[expected_name] = 0
ExpectedBlockWithoutColumn(r, field, expected, listed) ==
    IF r[field] # NotFound THEN r
    ELSE [r EXCEPT ![field] = expected,
                   !.missing_cols = IF listed /\ ~HasColumn(r.columns, expected)
                                      THEN Append(@, expected) ELSE @]

\* One "if <col> is None" block of lines 562-570 and 608-641: the expected
\* header is taken when the frame has it and is added as a column of zeros
\* otherwise; the blocks of units, revenue and views list it in missing_cols.
ExpectedBlock(r, field, expected, listed) ==
    IF r[field] # NotFound THEN r
    ELSE IF HasColumn(r.columns, expected) THEN [r EXCEPT ![field] = expected]
    ELSE [r EXCEPT ![field] = expected,
                   !.columns = Append(@, expected),
                   !.missing_cols = IF listed THEN Append(@, expected) ELSE @]

\* lines 541-560
UnitsBlock(r, traffic_type) ==
    IF r.units_col # NotFound THEN r
    ELSE IF traffic_type = "B2B"
      THEN (IF find_b2b_units_column(r.columns) # NotFound
              THEN [r EXCEPT !.units_col = find_b2b_units_column(r.columns)]
              ELSE [r EXCEPT !.units_col = "Bestellte Einheiten <en> B2B",
                             !.columns = WithColumn(@, "Bestellte Einheiten <en> B2B"),
                             !.missing_cols = Append(@, "Bestellte Einheiten <en> B2B")])
    ELSE ExpectedBlock(r, "units_col", "Bestellte Einheiten", TRUE)

\* lines 572-593: the first header with all search_keywords is taken before
\* a column of zeros is added
ViewsBlock(r, traffic_type) ==
    LET expected == IF traffic_type = "B2B" THEN "Seitenaufrufe <en> Summe <en> B2B"
                    ELSE "Seitenaufrufe <en> Summe"
        matching == FirstColumn(r.columns, LAMBDA col :
                        /\ InLower(col, "seitenaufrufe") /\ InLower(col, "summe")
                        /\ (traffic_type = "B2B" => InLower(col, "b2b")))
    IN  IF r.views_col = NotFound /\ ~HasColumn(r.columns, expected) /\ matching # NotFound
          THEN [r EXCEPT !.views_col = matching]
          ELSE ExpectedBlock(r, "views_col", expected, TRUE)

\* lines 595-614
SessionsBlock(r, traffic_type) ==
    IF r.sessions_col # NotFound THEN r
    ELSE IF traffic_type = "B2B"
      THEN (IF FirstExact(r.columns, b2b_sessions_candidates) # NotFound
              THEN [r EXCEPT !.sessions_col = FirstExact(r.columns, b2b_sessions_candidates)]
              ELSE [r EXCEPT !.sessions_col = "Sitzungen <en> Summe <en> B2B",
                             !.columns = WithColumn(@, "Sitzungen <en> Summe <en> B2B")])
    ELSE ExpectedBlock(r, "sessions_col", "Sitzungen <en> Summe", FALSE)

\* the expected header of a metric in the traffic segment
Expected(name, traffic_type) ==
    IF traffic_type = "B2B"
      THEN (IF name = "revenue_col" THEN "Bestellsumme <en> B2B"
            ELSE IF name = "orders_col" THEN "Zahl der Bestellposten <en> B2B"
            ELSE IF name = "mobile_sessions_col" THEN "Sitzungen <en> mobile App <en> B2B"
            ELSE "Sitzungen <en> Browser <en> B2B")
      ELSE (IF name = "revenue_col" THEN "Durch bestellte Produkte erzielter Umsatz"
            ELSE IF name = "orders_col" THEN "Zahl der Bestellposten"
            ELSE IF name = "mobile_sessions_col" THEN "Sitzungen <en> mobile App"
            ELSE "Sitzungen <en> Browser")

\* lines 645-660: with traffic type B2B the units column is the header
\* find_b2b_units_column finds
UnitsOverride(r, traffic_type) ==
    IF traffic_type = "B2B" /\ find_b2b_units_column(r.columns) # NotFound
      THEN [r EXCEPT !.units_col = find_b2b_units_column(r.columns)]
      ELSE r

\* lines 662-672: final_missing and cr_col
Checked(r, traffic_type) ==
    [units_col |-> r.units_col, revenue_col |-> r.revenue_col, views_col |-> r.views_col,
     sessions_col |-> r.sessions_col, orders_col |-> r.orders_col,
     mobile_sessions_col |-> r.mobile_sessions_col,
     browser_sessions_col |-> r.browser_sessions_col,
     columns |-> r.columns,
     missing_cols |-> r.missing_cols,
     final_missing |-> SelectSeq(<<r.units_col, r.revenue_col, r.views_col>>,
                                 LAMBDA col : col # NotFound /\ ~HasColumn(r.columns, col)),
     cr_col |-> find_cr_column(r.columns, traffic_type)]

\* lines 456-672: the seven columns, the headers of df after the columns of
\* zeros were added, missing_cols, final_missing and cr_col.  No statement of
\* the function reads missing_cols.
ResolveColumns(cols0, traffic_type) ==
    Checked(
      UnitsOverride(
        ExpectedBlock(
          ExpectedBlock(
            ExpectedBlock(
              SessionsBlock(
                ViewsBlock(
                  ExpectedBlock(UnitsBlock(FirstSearch(cols0, traffic_type), traffic_type),
                                "revenue_col", Expected("revenue_col", traffic_type), TRUE),
                  traffic_type),
                traffic_type),
              "orders_col", Expected("orders_col", traffic_type), FALSE),
            "mobile_sessions_col", Expected("mobile_sessions_col", traffic_type), FALSE),
          "browser_sessions_col", Expected("browser_sessions_col", traffic_type), FALSE),
        traffic_type),
      traffic_type)

\* lines 688-759: the units column of the B2B segment right before groupby;
\* hit is what find_b2b_units_column finds in the headers
ForcedUnitsColumn(cols, units_col, hit) ==
    LET exact(u) == IF u \in Range(b2b_units_names) THEN u
                    ELSE IF FirstExact(cols, b2b_units_names) # NotFound
                      THEN FirstExact(cols, b2b_units_names)
                    ELSE u
        forced(u) == IF hit # NotFound THEN hit ELSE u
        created(u) == IF hit # NotFound THEN hit ELSE "Bestellte Einheiten <en> B2B"
    IN  exact(forced(forced(exact(forced(created(created(units_col)))))))

(***************************************************************************)
(* aggregate_data: the rows and the derived KPIs.  The function is a run   *)
(* of steps on a record s: the frame df, the resolved columns r, the       *)
(* frame aggregated, and the exception raised, if any.                     *)
(***************************************************************************)
\* the seven columns in the order of agg_dict
MetricColumns(r) ==
    <<r.units_col, r.revenue_col, r.views_col, r.sessions_col, r.orders_col,
      r.mobile_sessions_col, r.browser_sessions_col>>

RECURSIVE ParseObjectColumns(_, _)
\* lines 763-779: a column of dtype object is parsed with parse_numeric_value
ParseObjectColumns(df, names) ==
    IF names = <<>> THEN df
    ELSE ParseObjectColumns(
           IF HasColumn(df.columns, Head(names)) /\ IsObject(df, Head(names))
             THEN ApplyColumn(df, Head(names),
                              LAMBDA cell : FloatCell(parse_numeric_value(cell)))
             ELSE df,
           Tail(names))

\* df.groupby(key).agg({name: 'sum', ..., mean_col: 'mean'}).reset_index():
\* one row per key value, in the order of the keys
GroupBy(df, key, names, mean_cols) ==
    LET keys == SortTexts({df.rows[i][key].s :
                             i \in {j \in 1..Len(df.rows) : df.rows[j][key].t = "str"}})
        cols == FirstOfEach(names)
        group(k) == SelectSeq(df.rows, LAMBDA row : row[key] = Str(k))
    IN  Frame(<<key>> \o cols,
              [n \in 1..Len(keys) |->
                  [h \in {key} \cup Range(cols) |->
                      IF h = key THEN Str(keys[n])
                      ELSE IF h \in mean_cols
                        THEN FloatCell(MeanF(ColumnOf(group(keys[n]), h)))
                      ELSE FloatCell(SumF(ColumnOf(group(keys[n]), h)))]])

RECURSIVE ParseAggregated(_, _, _)
\* lines 803-814: parse_euro_value on the revenue column, parse_numeric_value
\* on the others, then pd.to_numeric(...).fillna(0)
ParseAggregated(agg, names, revenue_col) ==
    IF names = <<>> THEN agg
    ELSE ParseAggregated(
           IF HasColumn(agg.columns, Head(names))
             THEN ApplyColumn(agg, Head(names),
                    LAMBDA cell : FloatCell(FillNa(IF Head(names) = revenue_col
                                                     THEN parse_euro_value(cell)
                                                     ELSE parse_numeric_value(cell))))
             ELSE agg,
           Tail(names), revenue_col)

\* aggregated[name] = f(row) for every row
Derive(agg, name, f(_)) ==
    Frame(WithColumn(agg.columns, name),
          [i \in 1..Len(agg.rows) |->
              [h \in Range(agg.columns) \cup {name} |->
                  IF h = name THEN f(agg.rows[i]) ELSE agg.rows[i][h]]])

\* column_mapping as a dict: the value a key has after all pairs were put in
MappedName(pairs, old) ==
    pairs[MaxOf({i \in 1..Len(pairs) : pairs[i][1] = old})][2]

\* the headers after rename(columns=rename_dict) of lines 937-947
RenamedColumns(cols, pairs) ==
    [i \in 1..Len(cols) |->
        IF \E k \in 1..Len(pairs) : pairs[k][1] = cols[i]
          THEN MappedName(pairs, cols[i]) ELSE cols[i]]

\* lines 937-952: rename the mapped columns, then keep the first of the
\* columns that got the same name
Rename(agg, new_cols) ==
    Frame(FirstOfEach(new_cols),
          [i \in 1..Len(agg.rows) |->
              [h \in Range(new_cols) |->
                  agg.rows[i][agg.columns[MinOf({k \in 1..Len(new_cols) :
                                                   new_cols[k] = h})]]]])

\* pd.to_numeric(cell, errors='coerce') of one cell: a text that is no number
\* is NaN
to_numeric(cell) ==
    IF cell.t = "str"
      THEN (IF PyFloat(cell.s).k = "raise" THEN NaN ELSE PyFloat(cell.s))
    ELSE IF cell.t = "None" THEN NaN
    ELSE Num(cell)

RECURSIVE FillNumeric(_, _)
\* lines 954-967: pd.to_numeric(..., errors='coerce').fillna(0) on the named
\* columns
FillNumeric(agg, names) ==
    IF names = <<>> THEN agg
    ELSE FillNumeric(
           IF HasColumn(agg.columns, Head(names))
             THEN ApplyColumn(agg, Head(names),
                              LAMBDA cell : FloatCell(FillNa(to_numeric(cell))))
             ELSE agg,
           Tail(names))

numeric_cols_to_convert ==
    <<"Seitenaufrufe", "Sitzungen", "Bestellungen", "Bestellte Einheiten",
      "Mobile Sitzungen", "Browser Sitzungen", "Umsatz">>

\* lines 675-797 on the frame df that has the columns of zeros: the units
\* column is forced (product level), the object columns are parsed, and the
\* rows are copied (account level) or grouped by period (product level)
Aggregated(df, r, traffic_type, account_level) ==
    IF account_level
      THEN [df |-> df, r |-> r, traffic_type |-> traffic_type,
            account_level |-> account_level, raised |-> "",
            aggregated |-> SetColumns(Frame(FirstOfEach(df.columns), df.rows),
                                      SelectSeq(MetricColumns(r),
                                                LAMBDA c : ~HasColumn(df.columns, c)),
                                      IntCell(0))]
    ELSE IF \E c \in Range(MetricColumns(r)) \cup {"Zeitraum"} : ~HasColumn(df.columns, c)
      \* 797: groupby reads a column the frame lacks
      THEN [df |-> df, r |-> r, traffic_type |-> traffic_type,
            account_level |-> account_level, raised |-> "KeyError",
            aggregated |-> Frame(<<>>, <<>>)]
    ELSE [df |-> ParseObjectColumns(df, MetricColumns(r)), r |-> r,
          traffic_type |-> traffic_type, account_level |-> account_level, raised |-> "",
          aggregated |->
              GroupBy(ParseObjectColumns(df, MetricColumns(r)), "Zeitraum",
                      MetricColumns(r)
                      \o (IF r.cr_col # NotFound THEN <<r.cr_col>> ELSE <<>>),
                      {r.cr_col})]

\* lines 688-759: with traffic type B2B on product level the units column is
\* forced to the B2B header once more
Forced(df, r, traffic_type, account_level) ==
    IF account_level \/ traffic_type # "B2B" THEN r
    ELSE [r EXCEPT !.units_col =
            ForcedUnitsColumn(df.columns, @, find_b2b_units_column(df.columns))]

\* lines 465-641 and 696: df with its columns of zeros
Zeroed(df0, r, traffic_type, account_level) ==
    SetColumns(df0,
               SubSeq(r.columns, Len(df0.columns) + 1, Len(r.columns))
               \o (IF ~account_level /\ traffic_type = "B2B"
                      /\ find_b2b_units_column(r.columns) = NotFound
                     THEN <<"Bestellte Einheiten <en> B2B">> ELSE <<>>),
               IntCell(0))

\* lines 803-814
Numeric(s) ==
    IF s.raised # "" THEN s
    ELSE [s EXCEPT !.aggregated = ParseAggregated(@, MetricColumns(s.r), s.r.revenue_col)]

\* the conversion rate always computed as orders / sessions * 100
WithConversionRateRecomputed(s) ==
    IF s.raised # "" THEN s
    ELSE [s EXCEPT !.aggregated =
            Derive(@, "Conversion Rate (%)",
              LAMBDA row : FloatCell(GuardedPercent(Num(row[s.r.orders_col]),
                                                    Num(row[s.r.sessions_col]))))]

\* lines 816-835: the conversion rate is the report's own column when the
\* frame has one, and orders / sessions * 100 otherwise
WithConversionRate(s) ==
    LET cr_col_after_agg ==
            IF s.r.cr_col # NotFound /\ HasColumn(s.aggregated.columns, s.r.cr_col)
              THEN s.r.cr_col
              ELSE find_cr_column(s.aggregated.columns, s.traffic_type)
    IN  IF s.raised # "" THEN s
        ELSE [s EXCEPT !.aggregated =
                Derive(@, "Conversion Rate (%)",
                  LAMBDA row :
                    IF cr_col_after_agg # NotFound
                      THEN FloatCell(FillNa(Num(row[cr_col_after_agg])))
                      ELSE FloatCell(GuardedPercent(Num(row[s.r.orders_col]),
                                                    Num(row[s.r.sessions_col]))))]

\* lines 837-870: on account level the report's own order-value column is
\* copied when find_column finds one; otherwise revenue / orders
WithOrderValue(s) ==
    LET aov_col_name == IF s.traffic_type = "normal"
                          THEN "Durchschnittlicher Umsatz/Bestellposten"
                          ELSE "Durchschnittlicher Umsatz pro Bestellposten <en> B2B"
        aov_col_alt == find_column(s.df.columns,
                          <<aov_col_name, "Durchschnittlicher Umsatz/Bestellposten",
                            "Durchschnittlicher Umsatz pro Bestellposten <en> B2B">>)
        copied == /\ aov_col_alt # NotFound /\ HasColumn(s.df.columns, aov_col_alt)
                  /\ s.account_level /\ HasColumn(s.aggregated.columns, aov_col_alt)
    IN  IF s.raised # "" THEN s
        ELSE [s EXCEPT !.aggregated =
                Derive(@, "AOV (<eur>)",
                  LAMBDA row :
                    IF copied THEN row[aov_col_alt]
                    ELSE FloatCell(GuardedRatio(Num(row[s.r.revenue_col]),
                                                Num(row[s.r.orders_col]))))]

\* lines 872-877
WithRevenuePerSession(s) ==
    IF s.raised # "" THEN s
    ELSE [s EXCEPT !.aggregated =
            Derive(@, "Revenue per Session (<eur>)",
              LAMBDA row : FloatCell(GuardedRatio(Num(row[s.r.revenue_col]),
                                                  Num(row[s.r.sessions_col]))))]

\* lines 912-935: the units column keeps its header with traffic type B2B
column_mapping(r, traffic_type) ==
    (IF traffic_type = "B2B" THEN <<>> ELSE <<<<r.units_col, "Bestellte Einheiten">>>>)
    \o <<<<r.revenue_col, "Umsatz">>, <<r.views_col, "Seitenaufrufe">>,
         <<r.sessions_col, "Sitzungen">>, <<r.orders_col, "Bestellungen">>,
         <<r.mobile_sessions_col, "Mobile Sitzungen">>,
         <<r.browser_sessions_col, "Browser Sitzungen">>>>

\* lines 879-952
Renamed(s) ==
    IF s.raised # "" THEN s
    ELSE [s EXCEPT !.aggregated =
            Rename(@, RenamedColumns(@.columns, column_mapping(s.r, s.traffic_type)))]

\* lines 954-969 and 799-800: the frame df is left as (df is changed in
\* place), the returned frame, and what st.warning showed
Returned(s) ==
    IF s.raised # ""
      THEN [df |-> s.df, raised |-> s.raised, aggregated |-> s.aggregated,
            warnings |-> <<>>]
      ELSE [df |-> s.df, raised |-> "",
            aggregated |-> FillNumeric(s.aggregated,
                                       numeric_cols_to_convert
                                       \o <<FirstExact(s.aggregated.columns,
                                                       b2b_units_names)>>),
            warnings |-> IF s.r.final_missing # <<>>
                           THEN <<[kind |-> "warning", columns |-> s.r.final_missing]>>
                           ELSE <<>>]

\* aggregate_data on the frame with its columns of zeros
AggregateZeroed(df, r, traffic_type, account_level) ==
    Returned(Renamed(WithRevenuePerSession(WithOrderValue(WithConversionRate(Numeric(
        Aggregated(df, Forced(df, r, traffic_type, account_level),
                   traffic_type, account_level)))))))

\* aggregate_data with the columns resolved
AggregateResolved(df0, r, traffic_type, account_level) ==
    AggregateZeroed(Zeroed(df0, r, traffic_type, account_level), r,
                    traffic_type, account_level)

\* aggregate_data(df, traffic_type, is_account_level)
aggregate_data(df0, traffic_type, account_level) ==
    AggregateResolved(df0, ResolveColumns(df0.columns, traffic_type),
                      traffic_type, account_level)

(***************************************************************************)
(* The frames load_and_process_csv hands to the dashboard.  A report is    *)
(* product level (one row per child ASIN, the period taken from the file   *)
(* name) or account level (one row per Datum cell).  The cells of the      *)
(* headers in numeric_columns are floats; a metric under any other header  *)
(* is still the text of the file.                                          *)
(***************************************************************************)
numeric_columns ==
    {"Bestellte Einheiten", "Bestellte Einheiten <en> B2B",
     "Durch bestellte Produkte erzielter Umsatz", "Bestellsumme <en> B2B",
     "Seitenaufrufe <en> Summe", "Seitenaufrufe <en> Summe <en> B2B",
     "Sitzungen <en> Summe", "Sitzungen <en> Summe <en> B2B",
     "Zahl der Bestellposten", "Zahl der Bestellposten <en> B2B",
     "Sitzungen <en> mobile App", "Sitzungen <en> mobile App <en> B2B",
     "Sitzungen <en> Browser", "Sitzungen <en> Browser <en> B2B",
     "Durchschnittlicher Umsatz/Bestellposten",
     "Durchschnittlicher Umsatz pro Bestellposten <en> B2B",
     "Prozentsatz Bestellposten pro Sitzung",
     "Bestellposten pro Sitzung Prozentwert <en> B2B"}

\* the headers of a child-ASIN report and of an account report, as exported
AsinReportHeaders ==
    <<"(Untergeordnete) ASIN",
      "Sitzungen <en> Summe", "Sitzungen <en> Summe <en> B2B",
      "Seitenaufrufe <en> Summe", "Seitenaufrufe <en> Summe <en> B2B",
      "Bestellte Einheiten", "Bestellte Einheiten <en> B2B",
      "Prozentsatz Bestellposten pro Sitzung",
      "Bestellposten pro Sitzung Prozentwert <en> B2B",
      "Durch bestellte Produkte erzielter Umsatz", "Bestellsumme <en> B2B",
      "Zahl der Bestellposten", "Zahl der Bestellposten <en> B2B">>

AccountReportHeaders ==
    <<"Datum",
      "Durch bestellte Produkte erzielter Umsatz", "Bestellsumme <en> B2B",
      "Bestellte Einheiten", "Bestellte Einheiten <en> B2B",
      "Zahl der Bestellposten", "Zahl der Bestellposten <en> B2B",
      "Durchschnittlicher Umsatz/Bestellposten",
      "Durchschnittlicher Umsatz pro Bestellposten <en> B2B",
      "Seitenaufrufe <en> Summe", "Seitenaufrufe <en> Summe <en> B2B",
      "Sitzungen <en> Summe", "Sitzungen <en> Summe <en> B2B",
      "Sitzungen <en> mobile App", "Sitzungen <en> mobile App <en> B2B",
      "Sitzungen <en> Browser", "Sitzungen <en> Browser <en> B2B",
      "Prozentsatz Bestellposten pro Sitzung",
      "Bestellposten pro Sitzung Prozentwert <en> B2B">>

\* the columns load_and_process_csv adds (lines 293-309)
LoadedHeaders == <<"Zeitraum", "Dateiname", "Report_Typ">>

\* spellings of the B2B units header other than the one of numeric_columns
UnitsHeaderVariants ==
    {"Bestellte Einheiten - B2B", "bestellte einheiten <en> b2b",
     "Bestellte Einheiten<nbsp><en> B2B", "Bestellte Einheiten <en> B 2B"}

\* which metric a header carries
MetricOf(h) ==
    IF InLower(h, "bestellte einheiten") THEN "units"
    ELSE IF InLower(h, "durchschnittlicher") THEN "aov"
    ELSE IF InLower(h, "prozentsatz") \/ InLower(h, "prozentwert") THEN "cr"
    ELSE IF InLower(h, "umsatz") \/ InLower(h, "bestellsumme") THEN "revenue"
    ELSE IF InLower(h, "seitenaufrufe") THEN "views"
    ELSE IF InLower(h, "mobile") THEN "mobile"
    ELSE IF InLower(h, "browser") THEN "browser"
    ELSE IF InLower(h, "sitzungen") THEN "sessions"
    ELSE IF InLower(h, "zahl der") THEN "orders"
    ELSE "none"

\* which traffic segment a header belongs to
SegmentOf(h) == IF Contains(RemoveChar(ColLower(h), " "), Chars["b2b"]) THEN "B2B"
                ELSE "normal"

\* the figures of one traffic segment in one record
Seg(units, revenue, views, sessions, orders, cr, aov) ==
    [units |-> Fin(units, 1), revenue |-> Fin(revenue, 1), views |-> Fin(views, 1),
     sessions |-> Fin(sessions, 1), orders |-> Fin(orders, 1),
     mobile |-> Fin(sessions \div 2, 1), browser |-> Fin(sessions - sessions \div 2, 1),
     cr |-> cr, aov |-> aov]

Idle == Seg(0, 0, 0, 0, 0, Zero, Zero)

\* the records of the model: busy, nothing sold, B2B idle, orders without a
\* session, page views only, and a record whose own conversion rate and
\* order value are not those of its sessions and orders
Profiles ==
    {[normal |-> Seg(3, 30, 8, 4, 2, Fin(50, 1), Fin(15, 1)),
      B2B |-> Seg(1, 10, 2, 1, 1, Fin(100, 1), Fin(10, 1))],
     [normal |-> Idle, B2B |-> Idle],
     [normal |-> Seg(2, 25, 5, 2, 2, Fin(100, 1), Fin(25, 2)), B2B |-> Idle],
     [normal |-> Seg(1, 20, 0, 0, 1, Zero, Fin(20, 1)),
      B2B |-> Seg(1, 5, 0, 0, 1, Zero, Fin(5, 1))],
     [normal |-> Seg(0, 0, 3, 2, 0, Zero, Zero), B2B |-> Seg(0, 0, 1, 1, 0, Zero, Zero)],
     [normal |-> Seg(0, 0, 1, 0, 0, Fin(5, 1), Fin(7, 1)),
      B2B |-> Seg(0, 0, 1, 0, 0, Fin(5, 1), Fin(7, 1))]}

(***************************************************************************)
(* Dates (pd.to_datetime, Period) on the proleptic Gregorian calendar.     *)
(***************************************************************************)
\* what pd.to_datetime(..., errors='coerce') gives for a text that is no date
NaT == [y |-> 0, m |-> 0, d |-> 0]

IsLeap(y) == (y % 4 = 0 /\ y % 100 # 0) \/ y % 400 = 0

DaysInMonth(y, m) == IF m = 2 THEN (IF IsLeap(y) THEN 29 ELSE 28)
                     ELSE IF m \in {4, 6, 9, 11} THEN 30 ELSE 31

\* pd.to_datetime of one period key: the texts YYYY-MM-DD that name a day of
\* the calendar are dates, every other key of the model (a file name, a text
\* without digits) is NaT
to_datetime(s) ==
    IF /\ Len(s) = 10
       /\ \A i \in {1, 2, 3, 4, 6, 7, 9, 10} : s[i] \in Digits
       /\ s[5] = "-" /\ s[8] = "-"
      THEN LET y == DigitsValue(SubSeq(s, 1, 4))
               m == DigitsValue(SubSeq(s, 6, 7))
               d == DigitsValue(SubSeq(s, 9, 10))
           IN  IF y >= 1 /\ m \in 1..12 /\ d >= 1 /\ d <= DaysInMonth(y, m)
                 THEN [y |-> y, m |-> m, d |-> d] ELSE NaT
      ELSE NaT

\* the number of the day, 1970-01-01 being day 0
DayNumber(date) ==
    LET y == IF date.m <= 2 THEN date.y - 1 ELSE date.y
        era == y \div 400
        yoe == y - era * 400
        mp == IF date.m > 2 THEN date.m - 3 ELSE date.m + 9
        doy == (153 * mp + 2) \div 5 + date.d - 1
        doe == yoe * 365 + yoe \div 4 - yoe \div 100 + doy
    IN  era * 146097 + doe - 719468

\* the date of a day number
DateOfDay(n) ==
    LET z == n + 719468
        era == z \div 146097
        doe == z - era * 146097
        yoe == (doe - doe \div 1460 + doe \div 36524 - doe \div 146096) \div 365
        doy == doe - (365 * yoe + yoe \div 4 - yoe \div 100)
        mp == (5 * doy + 2) \div 153
        m == IF mp < 10 THEN mp + 3 ELSE mp - 9
    IN  [y |-> (yoe + era * 400) + (IF m <= 2 THEN 1 ELSE 0), m |-> m,
         d |-> doy - (153 * mp + 2) \div 5 + 1]

\* a number in at least n digits
Padded(x, n) == IF Len(NatStr(x)) >= n THEN NatStr(x)
                ELSE [i \in 1..(n - Len(NatStr(x))) |-> "0"] \o NatStr(x)

\* strftime('%Y-%m-%d')
IsoText(date) == Padded(date.y, 4) \o <<"-">> \o Padded(date.m, 2) \o <<"-">>
                 \o Padded(date.d, 2)

\* the Monday of the week of a date (day 0 was a Thursday)
Monday(date) == DayNumber(date) - ((DayNumber(date) + 3) % 7)

\* the text of the period a date falls in:
\* dt.to_period('W').astype(str), dt.to_period('M').astype(str),
\* dt.year.astype(str) + ' (YTD)'
PeriodText(date, period) ==
    IF period = "week"
      THEN IsoText(DateOfDay(Monday(date))) \o <<"/">> \o IsoText(DateOfDay(Monday(date) + 6))
    ELSE IF period = "month" THEN Padded(date.y, 4) \o <<"-">> \o Padded(date.m, 2)
    ELSE IF period = "ytd" THEN NatStr(date.y) \o Chars[" (YTD)"]
    ELSE IsoText(date)

(***************************************************************************)
(* aggregate_by_period.                                                    *)
(***************************************************************************)
PeriodKeys == {"week", "month", "ytd"}

\* the column is one of the conversion-rate columns of the report
IsRateColumn(col) ==
    /\ InLower(col, "bestellposten") /\ InLower(col, "sitzung")
    /\ (InLower(col, "prozentsatz") \/ InLower(col, "prozentwert"))

RECURSIVE SortByDay(_)
\* sort_values('Zeitraum_DT') of the groups, given as <<day, row>> pairs
SortByDay(S) ==
    IF S = {} THEN <<>>
    ELSE LET first == CHOOSE x \in S : \A y \in S : x[1] <= y[1]
         IN  <<first[2]>> \o SortByDay(S \ {first})

\* line 974: the date of the period key of a row
RowDate(row) == IF row["Zeitraum"].t = "str" THEN to_datetime(row["Zeitraum"].s) ELSE NaT

\* lines 977-982: the rows whose period key is a date
Dated(df) == SelectSeq(df.rows, LAMBDA row : RowDate(row) # NaT)

\* lines 985-996: the period of every row
PeriodLabels(rows, period) == Table([i \in 1..Len(rows) |-> PeriodText(RowDate(rows[i]), period)])

\* lines 998-1013
exclude_from_sum(cols) ==
    {"AOV (<eur>)", "Conversion Rate (%)", "Revenue per Session (<eur>)",
     "Zeitraum_DT", "Zeitraum_Nr", "Jahr"}
    \cup {c \in Range(cols) : IsRateColumn(c)}

\* lines 1015-1029: the columns of agg_dict, the summed ones and then the
\* conversion-rate columns, which are averaged
PeriodMeanColumns(cols) ==
    SelectSeq(<<find_cr_column(cols, "normal"), find_cr_column(cols, "B2B")>>,
              LAMBDA c : c # NotFound)

PeriodSumColumns(df, rows) ==
    SelectSeq(df.columns, LAMBDA c : ~IsObject(Frame(df.columns, rows), c)
                                     /\ c \notin exclude_from_sum(df.columns))

\* a row of one period that keeps the figures of the first row of the group
PeriodRowOfFirst(group, label, cols, mean_cols) ==
    [h \in {"Zeitraum"} \cup Range(cols) |->
        IF h = "Zeitraum" THEN Str(label)
        ELSE FloatCell(Num(group[1][h]))]

\* line 1031: the row of one period
PeriodRow(group, label, cols, mean_cols) ==
    [h \in {"Zeitraum"} \cup Range(cols) |->
        IF h = "Zeitraum" THEN Str(label)
        ELSE IF h \in Range(mean_cols) THEN FloatCell(MeanF(ColumnOf(group, h)))
        ELSE FloatCell(SumF(ColumnOf(group, h)))]

\* the rows of one period, in the order of the frame
PeriodGroup(rows, labels, label) ==
    LET hits == {i \in 1..Len(rows) : labels[i] = label}
        nth(S, k) == CHOOSE i \in S : Cardinality({j \in S : j < i}) = k - 1
    IN  [k \in 1..Cardinality(hits) |-> rows[nth(hits, k)]]

\* lines 1031-1052: the groups by the first date of each; the column
\* Zeitraum is put last
PeriodFrame(rows, labels, cols, mean_cols) ==
    Frame(cols \o <<"Zeitraum">>,
          SortByDay({<<DayNumber(RowDate(PeriodGroup(rows, labels, l)[1])),
                       PeriodRow(PeriodGroup(rows, labels, l), l, cols, mean_cols)>> :
                       l \in Range(labels)}))

\* lines 1076-1085
PeriodConversionRate(aggregated, cr_col) ==
    IF cr_col # NotFound
      THEN Derive(aggregated, "Conversion Rate (%)",
                  LAMBDA row : FloatCell(FillNa(Num(row[cr_col]))))
    ELSE IF HasColumn(aggregated.columns, "Bestellungen")
            /\ HasColumn(aggregated.columns, "Sitzungen")
      THEN Derive(aggregated, "Conversion Rate (%)",
                  LAMBDA row : FloatCell(GuardedPercent(Num(row["Bestellungen"]),
                                                        Num(row["Sitzungen"]))))
    ELSE aggregated

\* the order value of the periods without the guard of the division
PeriodOrderValueUnguarded(aggregated) ==
    IF HasColumn(aggregated.columns, "Umsatz") /\ HasColumn(aggregated.columns, "Bestellungen")
      THEN Derive(aggregated, "AOV (<eur>)",
                  LAMBDA row : FloatCell(DivF(Num(row["Umsatz"]), Num(row["Bestellungen"]))))
      ELSE aggregated

\* lines 1087-1093
PeriodOrderValue(aggregated) ==
    IF HasColumn(aggregated.columns, "Umsatz") /\ HasColumn(aggregated.columns, "Bestellungen")
      THEN Derive(aggregated, "AOV (<eur>)",
                  LAMBDA row : FloatCell(GuardedRatio(Num(row["Umsatz"]),
                                                      Num(row["Bestellungen"]))))
      ELSE aggregated

\* lines 1095-1101
PeriodRevenuePerSession(aggregated) ==
    IF HasColumn(aggregated.columns, "Umsatz") /\ HasColumn(aggregated.columns, "Sitzungen")
      THEN Derive(aggregated, "Revenue per Session (<eur>)",
                  LAMBDA row : FloatCell(GuardedRatio(Num(row["Umsatz"]),
                                                      Num(row["Sitzungen"]))))
      ELSE aggregated

\* lines 1054-1101: the KPIs of the periods
PeriodKpis(aggregated, traffic_type) ==
    PeriodRevenuePerSession(PeriodOrderValue(
        PeriodConversionRate(aggregated, find_cr_column(aggregated.columns, traffic_type))))

\* lines 977-1103 on the rows that have a date
ByPeriod(df, rows, period, traffic_type) ==
    IF rows = <<>>
      THEN Frame(Append(df.columns, "Zeitraum_DT"), <<>>)
      ELSE PeriodKpis(PeriodFrame(rows, PeriodLabels(rows, period),
                                  FirstOfEach(PeriodSumColumns(df, rows)
                                              \o PeriodMeanColumns(df.columns)),
                                  PeriodMeanColumns(df.columns)),
                      traffic_type)

aggregate_by_period(df, period, traffic_type) ==
    IF ~HasColumn(df.columns, "Zeitraum") THEN df
    ELSE ByPeriod(df, Dated(df), period, traffic_type)

(***************************************************************************)
(* get_top_flop_asins.                                                     *)
(***************************************************************************)
required_cols ==
    <<"ASIN", "Einheiten", "Umsatz", "Seitenaufrufe", "Sitzungen", "Bestellungen",
      "Conversion Rate (%)", "AOV (<eur>)", "Revenue per Session (<eur>)">>

\* the outcome "return None, None"
NoLeaders == [top_asins |-> None, flop_asins |-> None]

\* lines 1108-1120: the columns of the selected traffic segment
LeaderSearch(cols, traffic_type) ==
    IF traffic_type = "B2B"
      THEN [units_col |-> find_b2b_units_column(cols),
            revenue_col |-> find_column(cols, b2b_revenue_candidates),
            views_col |-> find_column(cols, <<"Seitenaufrufe <en> Summe <en> B2B",
                                              "Seitenaufrufe - Summe - B2B">>),
            sessions_col |-> find_column(cols, b2b_sessions_candidates),
            orders_col |-> find_column(cols, b2b_orders_candidates)]
      ELSE [units_col |-> find_column(cols, <<"Bestellte Einheiten">>),
            revenue_col |-> find_column(cols, <<"Durch bestellte Produkte erzielter Umsatz">>),
            views_col |-> find_column(cols, <<"Seitenaufrufe <en> Summe",
                                              "Seitenaufrufe - Summe">>),
            sessions_col |-> find_column(cols, <<"Sitzungen <en> Summe", "Sitzungen - Summe">>),
            orders_col |-> find_column(cols, <<"Zahl der Bestellposten">>)]

\* lines 1128-1144: the fallbacks of the two optional columns
LeaderFallbacks(c, cols) ==
    [c EXCEPT
       !.views_col =
           IF @ # NotFound THEN @
           ELSE IF c.sessions_col # NotFound THEN c.sessions_col
           ELSE FirstColumn(cols, LAMBDA col : InLower(col, "seitenaufrufe")
                                               \/ InLower(col, "views")),
       !.sessions_col =
           IF @ # NotFound THEN @
           ELSE FirstColumn(cols, LAMBDA col : InLower(col, "sitzungen")
                                               /\ InLower(col, "summe"))]

\* lines 1147-1149
AsinColumn(cols) == IF HasColumn(cols, "(Untergeordnete) ASIN")
                      THEN "(Untergeordnete) ASIN" ELSE "(<Ue>bergeordnete) ASIN"

\* lines 1156-1166: the keys of agg_dict
LeaderSums(c, cols) ==
    FirstOfEach(SelectSeq(<<c.units_col, c.revenue_col, c.views_col, c.sessions_col,
                            c.orders_col>>,
                          LAMBDA name : name # NotFound /\ HasColumn(cols, name)))

\* lines 1183-1203: the conversion rate of one product
LeaderConversionRate(row, df, c, asin_column, cr_col) ==
    IF cr_col # NotFound
      THEN FloatCell(FillNa(MeanF(ColumnOf(
               SelectSeq(df.rows, LAMBDA r : r[asin_column] = row[asin_column]), cr_col))))
    ELSE IF c.sessions_col \in DOMAIN row /\ c.orders_col \in DOMAIN row
      THEN FloatCell(GuardedPercent(Num(row[c.orders_col]), Num(row[c.sessions_col])))
    ELSE IntCell(0)

\* lines 1206-1224: a guarded quotient of two columns of one product
LeaderRatio(row, numerator, denominator) ==
    IF numerator \in DOMAIN row /\ denominator \in DOMAIN row
      THEN FloatCell(GuardedRatio(Num(row[numerator]), Num(row[denominator])))
      ELSE IntCell(0)

\* lines 1174-1224: one row of asin_data with its KPIs
LeaderKpis(row, cr, c, asin_column) ==
    [h \in DOMAIN row \cup {"Conversion Rate (%)", "AOV (<eur>)",
                            "Revenue per Session (<eur>)"} |->
        IF h = "Conversion Rate (%)" THEN cr
        ELSE IF h = "AOV (<eur>)" THEN LeaderRatio(row, c.revenue_col, c.orders_col)
        ELSE IF h = "Revenue per Session (<eur>)"
          THEN LeaderRatio(row, c.revenue_col, c.sessions_col)
        ELSE IF h = asin_column THEN row[h]
        ELSE FloatCell(FillNa(Num(row[h])))]

\* lines 1168-1224: asin_data, a row per product
Products(df, asin_data, c, asin_column, cr_col) ==
    {LeaderKpis(asin_data.rows[i],
                LeaderConversionRate(asin_data.rows[i], df, c, asin_column, cr_col),
                c, asin_column) : i \in 1..Len(asin_data.rows)}

\* lines 1233-1244 (and 1270-1281): rename_dict
LeaderNames(row, c, asin_column) ==
    <<<<asin_column, "ASIN">>, <<c.units_col, "Einheiten">>,
      <<c.revenue_col, "Umsatz">>, <<c.orders_col, "Bestellungen">>>>
    \o (IF c.views_col # NotFound /\ c.views_col \in DOMAIN row
          THEN <<<<c.views_col, "Seitenaufrufe">>>> ELSE <<>>)
    \o (IF c.sessions_col # NotFound /\ c.sessions_col \in DOMAIN row
          THEN <<<<c.sessions_col, "Sitzungen">>>> ELSE <<>>)

\* lines 1246-1256 (and 1283-1289): a row under the names of required_cols;
\* rename_dict is a dict, so of two names given to the same column the later
\* one is kept, and a name no column got is a column of 0
Renamed_row(row, rename_dict) ==
    [name \in Range(required_cols) |->
        LET sources == {col \in DOMAIN row :
                          IF \E i \in 1..Len(rename_dict) : rename_dict[i][1] = col
                            THEN MappedName(rename_dict, col) = name
                            ELSE col = name}
        IN  IF sources = {} THEN IntCell(0) ELSE row[CHOOSE col \in sources : TRUE]]

Leader(row, c, asin_column) == Table(Renamed_row(row, LeaderNames(row, c, asin_column)))

\* lines 1227-1258: the head of the products by falling revenue; sort_values
\* does not say which of two products of equal revenue comes first
TopRows(products, c, asin_column) ==
    IF products = {} THEN {None}
    ELSE {Leader(p, c, asin_column) :
            p \in {x \in products :
                     \A y \in products : ~LessF(Num(x[c.revenue_col]), Num(y[c.revenue_col]))}}

\* every product, whatever its revenue
WithAnyRevenue(products, revenue_col) == products

\* line 1262: asin_data[asin_data[revenue_col] > 0]
WithRevenue(products, revenue_col) == {p \in products : Positive(Num(p[revenue_col]))}

\* lines 1263-1294: the head, by rising revenue, of the products with revenue
FlopRows(with_revenue, c, asin_column) ==
    IF Cardinality(with_revenue) > 1
      THEN {Leader(p, c, asin_column) :
              p \in {x \in with_revenue :
                       \A y \in with_revenue :
                          ~LessF(Num(y[c.revenue_col]), Num(x[c.revenue_col]))}}
      ELSE {None}

\* lines 1226-1296
Leaders(products, c, asin_column) ==
    {[top_asins |-> t, flop_asins |-> f] :
        t \in TopRows(products, c, asin_column),
        f \in FlopRows(WithRevenue(products, c.revenue_col), c, asin_column)}

\* lines 1146-1296 with the columns found
TopFlop(df, c, asin_column, traffic_type) ==
    IF ~HasColumn(df.columns, asin_column) THEN {NoLeaders}
    ELSE IF LeaderSums(c, df.columns) = <<>> THEN {NoLeaders}
    ELSE Leaders(Products(df, GroupBy(df, asin_column, LeaderSums(c, df.columns), {}),
                          c, asin_column, find_cr_column(df.columns, traffic_type)),
                 c, asin_column)

\* lines 1123-1144 with what the searches found
Searched(df, c, traffic_type) ==
    IF c.units_col = NotFound \/ c.revenue_col = NotFound \/ c.orders_col = NotFound
      THEN {NoLeaders}
      ELSE TopFlop(df, LeaderFallbacks(c, df.columns), AsinColumn(df.columns), traffic_type)

\* get_top_flop_asins(df, traffic_type): the pairs (top_asins, flop_asins) it
\* can return
get_top_flop_asins(df, traffic_type) ==
    Searched(df, LeaderSearch(df.columns, traffic_type), traffic_type)

(***************************************************************************)
(* generate_summary and the sections of the dashboard script that follow   *)
(* the upload: aggregation, aggregation level, summary, Top/Flop.          *)
(***************************************************************************)
\* a - b
SubF(a, b) == AddF(a, IF b.k = "fin" THEN Fin(-b.num, b.den)
                      ELSE IF b.k = "inf" THEN Inf(-b.sign) ELSE b)

FirstPeriodMessage == "Dies ist der erste Zeitraum. Keine Vergleichsdaten verfuegbar."
NotEnoughMessage == "Nicht genuegend Daten fuer einen Vergleich verfuegbar."
OnePeriodMessage ==
    "Nur ein Zeitraum verfuegbar. Lade weitere Dateien hoch, um Vergleiche zu sehen."
PeriodErrorMessage ==
    "Fehler beim Laden der Zeitraeume. Bitte waehlen Sie andere Zeitraeume aus."
NoFlopMessage ==
    "Keine Flop-ASIN verfuegbar (nur ein ASIN mit Umsatz vorhanden oder alle ASINs haben keinen Umsatz)."
NoLeadersMessage ==
    "Top- und Flop-ASINs konnten nicht berechnet werden. Bitte ueberpruefe die Daten."
AccountLevelMessage ==
    "Account-Level Report: Top- und Flop-ASINs sind nicht verfuegbar (Daten sind bereits auf Account-Ebene aggregiert)."

\* generate_summary(current_data, previous_data, traffic_type); previous_data
\* is a frame or None.  The text of a comparison is kept as the two periods
\* it names and the change of revenue it reports.
generate_summary(current_data, previous_data, traffic_type) ==
    IF previous_data = None \/ Len(previous_data.rows) = 0
      THEN [comparison |-> FALSE, text |-> FirstPeriodMessage]
    ELSE IF Len(current_data.rows) = 0
      THEN [comparison |-> FALSE, text |-> NotEnoughMessage]
    ELSE LET current == current_data.rows[Len(current_data.rows)]
             previous == previous_data.rows[Len(previous_data.rows)]
         IN  [comparison |-> TRUE,
              previous_period |-> previous["Zeitraum"].s,
              current_period |-> current["Zeitraum"].s,
              revenue_change |-> SubF(Num(current["Umsatz"]), Num(previous["Umsatz"]))]

\* lines 1536-1537: the dates among the period keys
ValidDates(aggregated) ==
    SelectSeq([i \in 1..Len(aggregated.rows) |-> RowDate(aggregated.rows[i])],
              LAMBDA d : d # NaT)

\* lines 1539-1545: more than half of the steps between the dates are one day
MostlyDaily(dates) ==
    /\ Len(dates) > 1
    /\ 2 * Cardinality({i \in 1..(Len(dates) - 1) :
                          DayNumber(dates[i + 1]) - DayNumber(dates[i]) = 1})
         > Len(dates) - 1

\* lines 1534-1546
is_daily_data(aggregated) ==
    HasColumn(aggregated.columns, "Zeitraum") /\ MostlyDaily(ValidDates(aggregated))

\* df[df[name] == text]
WhereText(df, name, text) ==
    Frame(df.columns, SelectSeq(df.rows, LAMBDA row : row[name] = Str(text)))


\* lines 2866-2875: the rows of the latest period, or all rows when there is
\* no period or no row of it
LatestRows(df, of_period) == IF Len(of_period.rows) > 0 THEN of_period ELSE df

latest_df(df, aggregated) ==
    IF Len(aggregated.rows) > 0 /\ aggregated.rows[Len(aggregated.rows)]["Zeitraum"].s # <<>>
      THEN LatestRows(df, WhereText(df, "Zeitraum",
                                    aggregated.rows[Len(aggregated.rows)]["Zeitraum"].s))
      ELSE df
(***************************************************************************)
(* The cells and date texts the normalizers are run on.                    *)
(***************************************************************************)
Alphabet == {"0", "1", ".", ",", " ", "\t", "<eur>", "%", "-", "x"}

Texts == UNION {[1..n -> Alphabet] : n \in 0..MaxLen}

CellExamples ==
    {"1.999,55 <eur>", "368,14 <eur>", "100,00 <eur>", "150,50 <eur>", "9,778",
     "123,45", "1.234,56", "1,234.56", "1.999", "1.234.567", "1,234,567",
     "16,40%", "16.40%", "nan", "NaN", "None", "inf", "-5", "50",
     "1,234.567,89", "1.234.567,89", "1,234,567.89", "12.345,6 <eur>"}

DateExamples ==
    {"01.03.25", "02.03.25", "31.12.99", "15.06.49", "15.06.50", " 01.03.25 ",
     "x01.03.25y", "1.3.25", "01.03.2025", "2025-03-01", "Datum",
     "BusinessReport-01.03.25.csv", "report.csv"}

CellValues ==
    {None, [t |-> "float", v |-> NaN], [t |-> "float", v |-> Inf(1)],
     [t |-> "float", v |-> Fin(1, 2)], [t |-> "int", i |-> 0], [t |-> "int", i |-> 7],
     [t |-> "int", i |-> -3]}
    \cup {Str(s) : s \in Texts}
    \cup {Str(Chars[e]) : e \in CellExamples \cup DateExamples}

(***************************************************************************)
(* The header lists and candidate lists find_column is run on.             *)
(***************************************************************************)
FindHeaders ==
    {"Bestellte Einheiten", "Bestellte Einheiten <en> B2B", "Bestellte Einheiten - B2B",
     "bestellte einheiten <en> b2b", "Bestellte Einheiten <en> B 2B",
     "Bestellte Einheiten<nbsp><en> B2B",
     "Durch bestellte Produkte erzielter Umsatz", "Bestellsumme <en> B2B",
     " Bestellsumme <em> B2B ",
     "Durchschnittlicher Umsatz/Bestellposten",
     "Durchschnittlicher Umsatz pro Bestellposten <en> B2B",
     "Sitzungen <en> Summe", "Sitzungen <en> Summe <en> B2B", "Seitenaufrufe <en> Summe"}

\* the sequences without repetition of at most n elements of S
RECURSIVE Lists(_, _)
Lists(S, n) ==
    IF n = 0 THEN {<<>>}
    ELSE LET shorter == Lists(S, n - 1)
         IN  shorter \cup
             {Append(p[1], p[2]) :
                p \in {q \in shorter \X S :
                         /\ Len(q[1]) = n - 1
                         /\ \A i \in 1..Len(q[1]) : q[1][i] # q[2]}}

\* the candidate lists of the calls of find_column in the script
CandidateLists ==
    {<<"Bestellte Einheiten">>,
     <<"Durch bestellte Produkte erzielter Umsatz">>,
     <<"Bestellsumme <en> B2B", "Bestellsumme - B2B">>,
     <<"Sitzungen <en> Summe", "Sitzungen - Summe">>,
     <<"Sitzungen <en> Summe <en> B2B", "Sitzungen - Summe - B2B">>,
     <<"Seitenaufrufe <en> Summe", "Seitenaufrufe - Summe",
       "Sitzungen <en> Summe", "Sitzungen - Summe">>,
     <<"Seitenaufrufe <en> Summe <en> B2B", "Seitenaufrufe - Summe - B2B",
       "Sitzungen <en> Summe <en> B2B", "Sitzungen - Summe - B2B">>,
     <<"Durchschnittlicher Umsatz/Bestellposten",
       "Durchschnittlicher Umsatz/Bestellposten",
       "Durchschnittlicher Umsatz pro Bestellposten <en> B2B">>,
     <<"Durchschnittlicher Umsatz pro Bestellposten <en> B2B",
       "Durchschnittlicher Umsatz/Bestellposten",
       "Durchschnittlicher Umsatz pro Bestellposten <en> B2B">>,
     <<"Bestellte Einheiten", "Bestellte Einheiten - B2B">>,
     <<"Bestellte Einheiten <en> B2B", "Bestellte Einheiten - B2B">>}


(***************************************************************************)
(* The frames the dashboard is run on.                                     *)
(***************************************************************************)
ReportKinds == {"ASIN-Level", "Account-Level"}

ReportHeaders(kind) == IF kind = "Account-Level" THEN AccountReportHeaders
                       ELSE AsinReportHeaders

\* the period of a product report with every two-digit year read as 20YY
FilePeriodThisCentury(file_name) ==
    LET s == Chars[file_name]
    IN  Str(IF DateSearch(s) # 0
              THEN <<"2", "0">> \o SubSeq(DateText(s, DateSearch(s)), 3, 10) ELSE s)

\* lines 299-305: the period of a product report, from its file name
FilePeriod(file_name) ==
    LET s == Chars[file_name]
    IN  Str(IF DateSearch(s) # 0 THEN DateText(s, DateSearch(s)) ELSE s)

\* one row of the frame load_and_process_csv returns for a record
ReportRow(kind, cols, rec) ==
    [h \in Range(cols) |->
        IF h = "(Untergeordnete) ASIN" THEN Text(rec.asin)
        ELSE IF h = "Datum" THEN Text(rec.src)
        ELSE IF h = "Zeitraum"
          THEN (IF kind = "Account-Level" THEN parse_date_column(Text(rec.src))
                ELSE FilePeriod(rec.src))
        ELSE IF h = "Dateiname"
          THEN Text(IF kind = "Account-Level" THEN "report.csv" ELSE rec.src)
        ELSE IF h = "Report_Typ" THEN Text(kind)
        ELSE IF h \in numeric_columns
          THEN FloatCell(rec.profile[SegmentOf(h)][MetricOf(h)])
        ELSE Str(NatStr(rec.profile[SegmentOf(h)][MetricOf(h)].num))]

ReportFrame(kind, headers, recs) ==
    Frame(headers \o LoadedHeaders,
          [i \in 1..Len(recs) |-> ReportRow(kind, headers \o LoadedHeaders, recs[i])])

\* the metric headers of a report
MetricHeaders(kind) == {h \in Range(ReportHeaders(kind)) : MetricOf(h) # "none"}

\* the header lists: a report without up to MaxMissing of its metric headers,
\* without the headers of the B2B segment, without its own conversion-rate
\* and order-value headers, or with another spelling of the B2B units header
HeaderLists(kind) ==
    {SelectSeq(ReportHeaders(kind), LAMBDA h : h \notin missing) :
        missing \in {m \in SUBSET MetricHeaders(kind) : Cardinality(m) <= MaxMissing}
                    \cup {{h \in MetricHeaders(kind) : SegmentOf(h) = "B2B"},
                          {h \in MetricHeaders(kind) : MetricOf(h) \in {"cr", "aov"}}}}
    \cup {[i \in 1..Len(ReportHeaders(kind)) |->
             IF ReportHeaders(kind)[i] = "Bestellte Einheiten <en> B2B" THEN v
             ELSE ReportHeaders(kind)[i]] : v \in UnitsHeaderVariants}

\* the header lists the rows are varied under
MainHeaderLists(kind) ==
    {SelectSeq(ReportHeaders(kind), LAMBDA h : h \notin missing) :
        missing \in {{}, {h \in MetricHeaders(kind) : SegmentOf(h) = "B2B"},
                     {h \in MetricHeaders(kind) : MetricOf(h) \in {"cr", "aov"}}}}

Asins == <<"B001", "B002", "B003">>

\* the Datum cells of an account report and the file names of product reports
Sources(kind) ==
    IF kind = "Account-Level" THEN {"01.03.25", "02.03.25", "03.03.25"}
    ELSE {"BusinessReport-01.03.25.csv", "BusinessReport-02.03.25.csv",
          "BusinessReport-03.03.25.csv", "report.csv"}

PeriodOf(kind, src) ==
    IF kind = "Account-Level" THEN parse_date_column(Text(src)).s ELSE FilePeriod(src).s

\* the records of up to n rows in the order of combined_df.sort_values('Zeitraum');
\* row i of a product report is product i
RECURSIVE SortedRecords(_, _)
SortedRecords(kind, n) ==
    IF n = 0 THEN {<<>>}
    ELSE LET shorter == SortedRecords(kind, n - 1)
         IN  shorter \cup
             {Append(recs, [asin |-> Asins[((n - 1) % Len(Asins)) + 1], src |-> src,
                            profile |-> p]) :
                recs \in {r \in shorter : Len(r) = n - 1},
                src \in Sources(kind), p \in Profiles}

InOrder(kind, recs) ==
    \A i \in 1..(Len(recs) - 1) :
        ~TextLess(PeriodOf(kind, recs[i + 1].src), PeriodOf(kind, recs[i].src))

\* two records that every header list is tried with
SampleRecords(kind) ==
    LET busy == CHOOSE p \in Profiles : p.B2B.revenue = Fin(10, 1)
        quiet == CHOOSE p \in Profiles : p.normal.revenue = Fin(25, 1)
        s1 == IF kind = "Account-Level" THEN "01.03.25" ELSE "BusinessReport-01.03.25.csv"
        s2 == IF kind = "Account-Level" THEN "03.03.25" ELSE "BusinessReport-03.03.25.csv"
    IN  <<[asin |-> "B001", src |-> s1, profile |-> busy],
          [asin |-> "B002", src |-> s2, profile |-> quiet]>>

\* two product files of consecutive days and one without a date in its name
UndatedRecords ==
    <<SampleRecords("ASIN-Level")[1],
      [asin |-> "B002", src |-> "BusinessReport-02.03.25.csv",
       profile |-> SampleRecords("ASIN-Level")[2].profile],
      [asin |-> "B003", src |-> "report.csv",
       profile |-> SampleRecords("ASIN-Level")[2].profile]>>

ReportFrames ==
    {ReportFrame("ASIN-Level", headers, UndatedRecords) :
        headers \in MainHeaderLists("ASIN-Level")}
    \cup
    UNION {{ReportFrame(kind, headers, recs) :
               headers \in MainHeaderLists(kind),
               recs \in {r \in SortedRecords(kind, MaxRows) : Len(r) > 0 /\ InOrder(kind, r)}}
           \cup {ReportFrame(kind, headers, SampleRecords(kind)) :
                    headers \in HeaderLists(kind)} :
           kind \in ReportKinds}

\* the products of the report files of one day: a product occurs once in a
\* file (lines 377-386), a second row of it comes from another file
LeaderProfiles == {p \in Profiles : p.normal.revenue \in {Fin(30, 1), Zero, Fin(20, 1)}
                                    /\ p.normal.views.num \in {8, 0}}

ProductFiles == <<"BusinessReport-01.03.25.csv", "BusinessReport-01.03.25 (1).csv",
                  "BusinessReport-01.03.25 (2).csv">>

\* how many of the rows are of the product
RowsOf(recs, asin) == Cardinality({i \in 1..Len(recs) : recs[i].asin = asin})

RECURSIVE ProductRecords(_)
ProductRecords(n) ==
    IF n = 0 THEN {<<>>}
    ELSE LET shorter == ProductRecords(n - 1)
         IN  shorter \cup
             UNION {{Append(recs, [asin |-> asin, profile |-> p,
                                   src |-> ProductFiles[1 + RowsOf(recs, asin)]]) :
                        asin \in {a \in Range(Asins) : RowsOf(recs, a) < Len(ProductFiles)},
                        p \in LeaderProfiles} :
                    recs \in {r \in shorter : Len(r) = n - 1}}

ProductFrames ==
    {ReportFrame("ASIN-Level", AsinReportHeaders, recs) :
        recs \in {r \in ProductRecords(MaxProductRows) : Len(r) > 0}}

(***************************************************************************)
(* The actions and the specifications.                                     *)
(***************************************************************************)

(***************************************************************************)
(* load_and_process_csv.  The file is the frame pd.read_csv returns with   *)
(* dtype=str and keep_default_na=False: every cell is a text, an empty     *)
(* field is the empty text, and the header names are distinct.             *)
(***************************************************************************)
\* line 342: .replace('', '0').replace('nan', '0').replace('NaN', '0')
\* .replace('None', '0') on the cells of a column
ReplacedBlank(cell) ==
    IF cell.s \in {<<>>, <<"n", "a", "n">>, <<"N", "a", "N">>, <<"N", "o", "n", "e">>}
      THEN Str(<<"0">>) ELSE cell

\* every numeric column read by parse_numeric_value
NormalizerOfNumbers(col) == "parse_numeric_value"

\* lines 343-353: the normalizer of a numeric column, by its header
NormalizerOf(col) ==
    IF \/ Contains(Chars[col], Chars["Umsatz"]) \/ Contains(Chars[col], Chars["Bestellsumme"])
       \/ Contains(Chars[col], Chars["Verkaufspreis"])
      THEN "parse_euro_value"
    ELSE IF \/ Contains(Chars[col], Chars["Prozentsatz"])
            \/ Contains(Chars[col], Chars["Prozentwert"])
            \/ (Len(Chars[col]) > 0 /\ Chars[col][Len(Chars[col])] = "%")
      THEN "parse_percentage"
    ELSE "parse_numeric_value"

\* lines 338-372: one cell of a numeric column after the loop
NormalizedCell(col, cell) ==
    FloatCell(IF NormalizerOf(col) = "parse_euro_value"
                THEN parse_euro_value(ReplacedBlank(cell))
              ELSE IF NormalizerOf(col) = "parse_percentage"
                THEN parse_percentage(ReplacedBlank(cell))
              ELSE parse_numeric_value(ReplacedBlank(cell)))

\* lines 291-309: the period key of one row of the file
RowPeriod(row, account_level, file_name) ==
    IF account_level THEN parse_date_column(row["Datum"]) ELSE FilePeriod(file_name)

\* lines 291-372: one row with its three added columns and its numeric cells
LoadedRow(row, cols, account_level, file_name) ==
    [h \in Range(cols) \cup Range(LoadedHeaders) |->
        IF h = "Zeitraum" THEN RowPeriod(row, account_level, file_name)
        ELSE IF h = "Dateiname" THEN Text(file_name)
        ELSE IF h = "Report_Typ"
          THEN Text(IF account_level THEN "Account-Level" ELSE "ASIN-Level")
        ELSE IF h \in numeric_columns THEN NormalizedCell(h, row[h])
        ELSE row[h]]

\* line 294: df.dropna(subset=['Zeitraum'])
DropNa(rows) == SelectSeq(rows, LAMBDA row : ~isna(row["Zeitraum"]))

\* drop_duplicates that keeps the last row of each group
DropDuplicatesKeepLast(rows) ==
    LET same(i, j) == /\ rows[i]["(Untergeordnete) ASIN"] = rows[j]["(Untergeordnete) ASIN"]
                      /\ rows[i]["Zeitraum"] = rows[j]["Zeitraum"]
        kept == {i \in 1..Len(rows) : \A j \in (i + 1)..Len(rows) : ~same(i, j)}
    IN  [k \in 1..Cardinality(kept) |->
            rows[CHOOSE i \in kept : Cardinality({j \in kept : j <= i}) = k]]

\* line 383: df.drop_duplicates(subset=['(Untergeordnete) ASIN', 'Zeitraum'],
\* keep='first')
DropDuplicates(rows) ==
    LET same(i, j) == /\ rows[i]["(Untergeordnete) ASIN"] = rows[j]["(Untergeordnete) ASIN"]
                      /\ rows[i]["Zeitraum"] = rows[j]["Zeitraum"]
        kept == {i \in 1..Len(rows) : \A j \in 1..(i - 1) : ~same(i, j)}
    IN  [k \in 1..Cardinality(kept) |->
            rows[CHOOSE i \in kept : Cardinality({j \in kept : j <= i}) = k]]

\* lines 291-372: the rows of the file that have a period key
LoadedRows(df, account_level, file_name) ==
    DropNa([i \in 1..Len(df.rows) |->
               LoadedRow(df.rows[i], df.columns, account_level, file_name)])

\* lines 377-386: the frame returned, and how many rows st.info reports as
\* removed
Deduplicated(cols, rows) ==
    IF HasColumn(cols, "(Untergeordnete) ASIN")
      THEN [df |-> Frame(cols, DropDuplicates(rows)),
            removed_count |-> Len(rows) - Len(DropDuplicates(rows))]
      ELSE [df |-> Frame(cols, rows), removed_count |-> 0]

\* load_and_process_csv(uploaded_file, file_name)
load_and_process_csv(df, file_name) ==
    Deduplicated(df.columns \o LoadedHeaders,
                 LoadedRows(df, HasColumn(df.columns, "Datum"), file_name))
NotRun == [fn |-> "none"]

ParseIdle == value = None /\ parsed = NotRun
FindIdle == columns = <<>> /\ possible_names = <<>> /\ found = "<pending>"

NotLoaded == [done |-> FALSE]

UploadIdle == uploaded_files = <<>> /\ file_index = 0 /\ all_dataframes = <<>>

LoadIdle ==
    /\ uploaded_file = Frame(<<>>, <<>>) /\ uploaded_file_name = "report.csv"
    /\ loaded = NotLoaded /\ UploadIdle

NoSummary == [called |-> FALSE, comparison |-> FALSE, text |-> ""]

MainIdle ==
    /\ filtered_df = Frame(<<>>, <<>>) /\ traffic_type_key = "normal"
    /\ is_account_level = FALSE /\ aggregated_data = Frame(<<>>, <<>>)
    /\ shown = <<>> /\ summary = NoSummary
    /\ top_asins = None /\ flop_asins = None /\ pc = "idle"

ParseEuroValue ==
    /\ parsed = NotRun
    /\ parsed' = [fn |-> "parse_euro_value", out |-> parse_euro_value(value)]
    /\ UNCHANGED <<value, columns, possible_names, found>>
    /\ UNCHANGED <<uploaded_file, uploaded_file_name, loaded>>
    /\ UNCHANGED <<uploaded_files, file_index, all_dataframes>>
    /\ UNCHANGED <<filtered_df, traffic_type_key, is_account_level, aggregated_data,
                   shown, summary, top_asins, flop_asins, pc>>

ParsePercentage ==
    /\ parsed = NotRun
    /\ parsed' = [fn |-> "parse_percentage", out |-> parse_percentage(value)]
    /\ UNCHANGED <<value, columns, possible_names, found>>
    /\ UNCHANGED <<uploaded_file, uploaded_file_name, loaded>>
    /\ UNCHANGED <<uploaded_files, file_index, all_dataframes>>
    /\ UNCHANGED <<filtered_df, traffic_type_key, is_account_level, aggregated_data,
                   shown, summary, top_asins, flop_asins, pc>>

ParseNumericValue ==
    /\ parsed = NotRun
    /\ parsed' = [fn |-> "parse_numeric_value", out |-> parse_numeric_value(value)]
    /\ UNCHANGED <<value, columns, possible_names, found>>
    /\ UNCHANGED <<uploaded_file, uploaded_file_name, loaded>>
    /\ UNCHANGED <<uploaded_files, file_index, all_dataframes>>
    /\ UNCHANGED <<filtered_df, traffic_type_key, is_account_level, aggregated_data,
                   shown, summary, top_asins, flop_asins, pc>>

ParseDateColumn ==
    /\ parsed = NotRun
    /\ parsed' = [fn |-> "parse_date_column", out |-> parse_date_column(value)]
    /\ UNCHANGED <<value, columns, possible_names, found>>
    /\ UNCHANGED <<uploaded_file, uploaded_file_name, loaded>>
    /\ UNCHANGED <<uploaded_files, file_index, all_dataframes>>
    /\ UNCHANGED <<filtered_df, traffic_type_key, is_account_level, aggregated_data,
                   shown, summary, top_asins, flop_asins, pc>>

InitParse ==
    value \in CellValues /\ parsed = NotRun /\ FindIdle /\ MainIdle /\ LoadIdle

NextParse == ParseEuroValue \/ ParsePercentage \/ ParseNumericValue \/ ParseDateColumn

SpecParse == InitParse /\ [][NextParse]_vars


FindColumn ==
    /\ found = "<pending>"
    /\ found' = find_column(columns, possible_names)
    /\ UNCHANGED <<value, parsed, columns, possible_names>>
    /\ UNCHANGED <<uploaded_file, uploaded_file_name, loaded>>
    /\ UNCHANGED <<uploaded_files, file_index, all_dataframes>>
    /\ UNCHANGED <<filtered_df, traffic_type_key, is_account_level, aggregated_data,
                   shown, summary, top_asins, flop_asins, pc>>

InitFind ==
    /\ columns \in Lists(FindHeaders, MaxCols)
    /\ possible_names \in CandidateLists
    /\ found = "<pending>"
    /\ ParseIdle /\ MainIdle /\ LoadIdle

NextFind == FindColumn

SpecFind == InitFind /\ [][NextFind]_vars


\* lines 1517-1530: what the script keeps of one call of aggregate_data: the frame the call
\* changed in place, the periods, the warnings it showed; an exception ends
\* the run
AggregateDone(out) ==
    /\ filtered_df' = out.df
    /\ aggregated_data' = out.aggregated
    /\ shown' = shown \o out.warnings
    /\ pc' = IF out.raised # "" THEN out.raised ELSE "level"

AggregateData ==
    /\ pc = "aggregate"
    /\ AggregateDone(aggregate_data(filtered_df, traffic_type_key, is_account_level))
    /\ UNCHANGED <<traffic_type_key, is_account_level, summary, top_asins, flop_asins>>
    /\ UNCHANGED <<value, parsed, columns, possible_names, found>>
    /\ UNCHANGED <<uploaded_file, uploaded_file_name, loaded>>
    /\ UNCHANGED <<uploaded_files, file_index, all_dataframes>>

\* lines 1532-1575: on daily data the operator picks week, month or YTD and
\* the periods are aggregated to that level
AggregateByPeriod ==
    /\ pc = "level"
    /\ IF is_daily_data(aggregated_data)
         THEN \E period_key \in PeriodKeys :
                aggregated_data' = aggregate_by_period(aggregated_data, period_key,
                                                       traffic_type_key)
         ELSE aggregated_data' = aggregated_data
    /\ pc' = "summary"
    /\ UNCHANGED <<filtered_df, traffic_type_key, is_account_level, shown, summary,
                   top_asins, flop_asins>>
    /\ UNCHANGED <<value, parsed, columns, possible_names, found>>
    /\ UNCHANGED <<uploaded_file, uploaded_file_name, loaded>>
    /\ UNCHANGED <<uploaded_files, file_index, all_dataframes>>

\* lines 2844-2853: the summary of the two periods picked
Compared(current_data, previous_data, traffic_type) ==
    IF Len(previous_data.rows) > 0 /\ Len(current_data.rows) > 0
      THEN [called |-> TRUE] @@ generate_summary(current_data, previous_data, traffic_type)
      ELSE [called |-> FALSE, comparison |-> FALSE, text |-> PeriodErrorMessage]

\* lines 2822-2860: the summary of the single view; the operator picks the
\* two periods among the available ones
SummarySection ==
    /\ pc = "summary"
    /\ IF Len(aggregated_data.rows) > 1
         THEN \E previous_period, current_period \in
                   {aggregated_data.rows[i]["Zeitraum"].s : i \in 1..Len(aggregated_data.rows)} :
                summary' = Compared(WhereText(aggregated_data, "Zeitraum", current_period),
                                    WhereText(aggregated_data, "Zeitraum", previous_period),
                                    traffic_type_key)
         ELSE summary' = [called |-> FALSE, comparison |-> FALSE,
                          text |-> OnePeriodMessage]
    /\ pc' = "leaders"
    /\ UNCHANGED <<filtered_df, traffic_type_key, is_account_level, aggregated_data,
                   shown, top_asins, flop_asins>>
    /\ UNCHANGED <<value, parsed, columns, possible_names, found>>
    /\ UNCHANGED <<uploaded_file, uploaded_file_name, loaded>>
    /\ UNCHANGED <<uploaded_files, file_index, all_dataframes>>

\* lines 2957-2995: what the section shows of the two rows
LeaderOutput(out) ==
    IF out.top_asins = None
      THEN <<[kind |-> "info", text |-> NoLeadersMessage]>>
      ELSE <<[kind |-> "top", row |-> out.top_asins]>>
           \o (IF out.flop_asins = None
                 THEN <<[kind |-> "info", text |-> NoFlopMessage]>>
                 ELSE <<[kind |-> "flop", row |-> out.flop_asins]>>)

\* lines 2862-2997: Top and Flop of the latest period
TopFlopSection ==
    /\ pc = "leaders"
    /\ IF is_account_level
         THEN /\ shown' = Append(shown, [kind |-> "info", text |-> AccountLevelMessage])
              /\ UNCHANGED <<top_asins, flop_asins>>
         ELSE \E out \in get_top_flop_asins(latest_df(filtered_df, aggregated_data),
                                            traffic_type_key) :
                /\ top_asins' = out.top_asins
                /\ flop_asins' = out.flop_asins
                /\ shown' = shown \o LeaderOutput(out)
    /\ pc' = "done"
    /\ UNCHANGED <<filtered_df, traffic_type_key, is_account_level, aggregated_data,
                   summary>>
    /\ UNCHANGED <<value, parsed, columns, possible_names, found>>
    /\ UNCHANGED <<uploaded_file, uploaded_file_name, loaded>>
    /\ UNCHANGED <<uploaded_files, file_index, all_dataframes>>

Next == AggregateData \/ AggregateByPeriod \/ SummarySection \/ TopFlopSection

\* line 1482: the report type of the first row
InitOn(frames) ==
    /\ filtered_df \in frames
    /\ traffic_type_key \in TrafficTypes
    /\ is_account_level = (filtered_df.rows[1]["Report_Typ"] = Text("Account-Level"))
    /\ aggregated_data = Frame(<<>>, <<>>)
    /\ shown = <<>> /\ summary = NoSummary
    /\ top_asins = None /\ flop_asins = None
    /\ pc = "aggregate"
    /\ ParseIdle /\ FindIdle /\ LoadIdle

InitDashboard == InitOn(ReportFrames)

InitLeaders == InitOn(ProductFrames)

SpecDashboard == InitDashboard /\ [][Next]_vars

SpecLeaders == InitLeaders /\ [][Next]_vars

(***************************************************************************)
(* The uploaded files load_and_process_csv is run on.                      *)
(***************************************************************************)
\* the text of a field of the file; the empty field is the empty text
Field(id) == IF id = "" THEN Str(<<>>) ELSE Text(id)

\* the Datum fields of an account report
DatumFields ==
    {"01.03.25", "02.03.25", "31.12.99", "15.06.50", " 01.03.25 ", "x01.03.25y",
     "99.99.25", "1.3.25", "2025-03-01", "Datum", ""}

\* the names of the uploaded product reports
FileNames ==
    {"BusinessReport-01.03.25.csv", "BusinessReport-02.03.25.csv", "Report_15.06.49.csv",
     "Report_15.06.50.csv", "Report_31.12.99.csv", "01.03.25-02.03.25.csv",
     "123.45.678.csv", "Report 1.3.25.csv", "Report_2025-03-01.csv", "report.csv"}

AccountFileHeaders ==
    <<"Datum", "Sitzungen <en> Summe", "Durch bestellte Produkte erzielter Umsatz">>

ProductFileHeaders ==
    <<"(Untergeordnete) ASIN", "Titel", "Bestellte Einheiten",
      "Prozentsatz Bestellposten pro Sitzung">>

\* the figures of one line of a file, as the texts of its fields
FileFigures ==
    {<<"12", "1,5 <eur>", "5,00%">>, <<"9,778", "368,14 <eur>", "16.40%">>,
     <<"", "nan", "x">>}

AccountFileRows ==
    {("Datum" :> Field(d) @@ "Sitzungen <en> Summe" :> Field(f[1])
      @@ "Durch bestellte Produkte erzielter Umsatz" :> Field(f[2])) :
        d \in DatumFields, f \in FileFigures}

ProductFileRows ==
    {("(Untergeordnete) ASIN" :> Field(a) @@ "Titel" :> Field("Titel")
      @@ "Bestellte Einheiten" :> Field(f[1])
      @@ "Prozentsatz Bestellposten pro Sitzung" :> Field(f[3])) :
        a \in {"B001", "B002"}, f \in FileFigures}

\* the files of 1 to MaxRows lines
UploadedFiles(headers, rows) ==
    {Frame(headers, r) : r \in UNION {[1..n -> rows] : n \in 1..MaxRows}}

\* lines 268-391: one call of load_and_process_csv
LoadAndProcessCsv ==
    /\ ~loaded.done
    /\ loaded' = [done |-> TRUE] @@ load_and_process_csv(uploaded_file, uploaded_file_name)
    /\ UNCHANGED <<uploaded_file, uploaded_file_name>>
    /\ UNCHANGED <<uploaded_files, file_index, all_dataframes>>
    /\ UNCHANGED <<value, parsed, columns, possible_names, found>>
    /\ UNCHANGED <<filtered_df, traffic_type_key, is_account_level, aggregated_data,
                   shown, summary, top_asins, flop_asins, pc>>

InitLoad ==
    /\ \/ uploaded_file \in UploadedFiles(AccountFileHeaders, AccountFileRows)
          /\ uploaded_file_name = "report.csv"
       \/ uploaded_file \in UploadedFiles(ProductFileHeaders, ProductFileRows)
          /\ uploaded_file_name \in FileNames
    /\ loaded = NotLoaded
    /\ ParseIdle /\ FindIdle /\ MainIdle /\ UploadIdle

NextLoad == LoadAndProcessCsv

SpecLoad == InitLoad /\ [][NextLoad]_vars

(***************************************************************************)
(* aggregate_by_period on the day level: a period other than 'week',       *)
(* 'month' and 'ytd' groups the rows by the day of their period key        *)
(* (lines 994-996).                                                        *)
(***************************************************************************)
RegroupByDay ==
    /\ pc = "level"
    /\ aggregated_data' = aggregate_by_period(aggregated_data, "day", traffic_type_key)
    /\ pc' = "regrouped"
    /\ UNCHANGED <<filtered_df, traffic_type_key, is_account_level, shown, summary,
                   top_asins, flop_asins>>
    /\ UNCHANGED <<value, parsed, columns, possible_names, found>>
    /\ UNCHANGED <<uploaded_file, uploaded_file_name, loaded>>
    /\ UNCHANGED <<uploaded_files, file_index, all_dataframes>>

NextRegroup == AggregateData \/ RegroupByDay

SpecRegroup == InitDashboard /\ [][NextRegroup]_vars

(***************************************************************************)
(* The loading loop of the script (lines 1447-1513).  An uploaded file is  *)
(* its name and the frame pd.read_csv returns for it; a file pd.read_csv   *)
(* raises on (an empty file, bytes that are not UTF-8) has no frame.       *)
(***************************************************************************)
\* most files of one upload
MaxFiles == 3

LoadErrorMessage == "Fehler beim Laden der Datei"
RemovedMessage == "doppelte Eintraege fuer untergeordnete ASINs wurden entfernt"
NoDataMessage == "Keine Daten konnten geladen werden"

\* a call that reports nothing when the file cannot be read
LoadedFileSilently(file) ==
    IF file.df = None THEN [df |-> None, messages |-> <<>>]
    ELSE [df |-> load_and_process_csv(file.df, file.name).df, messages |-> <<>>]

\* lines 270-391 on one file: the frame and the messages of the call; the
\* except clause reports the error and returns None
LoadedFile(file) ==
    IF file.df = None
      THEN [df |-> None,
            messages |-> <<[kind |-> "error", text |-> LoadErrorMessage, file |-> file.name]>>]
      ELSE LET out == load_and_process_csv(file.df, file.name)
           IN  [df |-> out.df,
                messages |-> IF out.removed_count > 0
                               THEN <<[kind |-> "info", text |-> RemovedMessage,
                                       removed_count |-> out.removed_count]>>
                               ELSE <<>>]

RECURSIVE Flatten(_)
\* the rows of a list of lists, in their order
Flatten(lists) == IF lists = <<>> THEN <<>> ELSE Head(lists) \o Flatten(Tail(lists))

\* line 1456: pd.concat(all_dataframes, ignore_index=True): the columns of all
\* frames in the order they first occur, a cell of a column a frame lacks
\* is NaN
Concat(frames) ==
    LET cols == FirstOfEach(Flatten([i \in 1..Len(frames) |-> frames[i].columns]))
        wide(row) == [h \in Range(cols) |-> IF h \in DOMAIN row THEN row[h]
                                           ELSE FloatCell(NaN)]
    IN  Frame(cols, Flatten([i \in 1..Len(frames) |->
                                [k \in 1..Len(frames[i].rows) |-> wide(frames[i].rows[k])]]))

\* the list without its element i
Without(s, i) == SubSeq(s, 1, i - 1) \o SubSeq(s, i + 1, Len(s))

RECURSIVE SortByPeriod(_)
\* line 1459: sort_values('Zeitraum') of rows whose period keys are texts;
\* rows of the same key keep their order (the tables of the model are
\* shorter than the 16 rows from which the sort stops being stable)
SortByPeriod(rows) ==
    IF rows = <<>> THEN <<>>
    ELSE LET least == MinOf({i \in 1..Len(rows) :
                               \A j \in 1..Len(rows) :
                                  ~TextLess(rows[j]["Zeitraum"].s, rows[i]["Zeitraum"].s)})
         IN  <<rows[least]>> \o SortByPeriod(Without(rows, least))

\* lines 1456-1459
combined_df(frames) == Frame(Concat(frames).columns, SortByPeriod(Concat(frames).rows))

\* lines 1450-1453: one turn of the loop
LoadFile ==
    /\ pc = "upload" /\ file_index < Len(uploaded_files)
    /\ LET out == LoadedFile(uploaded_files[file_index + 1])
       IN  /\ all_dataframes' = IF out.df = None THEN all_dataframes
                                ELSE Append(all_dataframes, out.df)
           /\ shown' = shown \o out.messages
    /\ file_index' = file_index + 1
    /\ UNCHANGED <<uploaded_files, filtered_df, traffic_type_key, is_account_level,
                   aggregated_data, summary, top_asins, flop_asins, pc>>
    /\ UNCHANGED <<value, parsed, columns, possible_names, found>>
    /\ UNCHANGED <<uploaded_file, uploaded_file_name, loaded>>

\* lines 1455-1513 and 3099-3100: the frames are combined and sorted, no
\* product is filtered out; without any frame the script shows an error and
\* ends
CombineFiles ==
    /\ pc = "upload" /\ file_index = Len(uploaded_files)
    /\ IF all_dataframes # <<>>
         THEN /\ filtered_df' = combined_df(all_dataframes)
              /\ is_account_level' =
                    (combined_df(all_dataframes).rows[1]["Report_Typ"] = Text("Account-Level"))
              /\ shown' = Append(shown, [kind |-> "success", files |-> Len(all_dataframes)])
              /\ pc' = "aggregate"
         ELSE /\ shown' = Append(shown, [kind |-> "error", text |-> NoDataMessage])
              /\ pc' = "done"
              /\ UNCHANGED <<filtered_df, is_account_level>>
    /\ UNCHANGED <<uploaded_files, file_index, all_dataframes, traffic_type_key,
                   aggregated_data, summary, top_asins, flop_asins>>
    /\ UNCHANGED <<value, parsed, columns, possible_names, found>>
    /\ UNCHANGED <<uploaded_file, uploaded_file_name, loaded>>

(***************************************************************************)
(* The uploads: product files of one line, named by their day, and a file  *)
(* that cannot be read.                                                    *)
(***************************************************************************)
UploadHeaders ==
    <<"(Untergeordnete) ASIN", "Bestellte Einheiten",
      "Durch bestellte Produkte erzielter Umsatz", "Sitzungen <en> Summe",
      "Zahl der Bestellposten">>

\* the fields of a line: units, revenue, sessions, orders
UploadFigures ==
    {<<"10", "100,00 <eur>", "50", "8">>, <<"12", "150,50 <eur>", "60", "10">>,
     <<"0", "0", "0", "0">>}

UploadLines ==
    {("(Untergeordnete) ASIN" :> Field(a) @@ "Bestellte Einheiten" :> Field(f[1])
      @@ "Durch bestellte Produkte erzielter Umsatz" :> Field(f[2])
      @@ "Sitzungen <en> Summe" :> Field(f[3]) @@ "Zahl der Bestellposten" :> Field(f[4])) :
        a \in {"B001", "B002"}, f \in UploadFigures}

UploadNames == {"BusinessReport-01.03.25.csv", "BusinessReport-02.03.25.csv"}

FilesOfUpload ==
    {[name |-> n, df |-> Frame(UploadHeaders, <<l>>)] : n \in UploadNames, l \in UploadLines}
    \cup {[name |-> "report.csv", df |-> None]}

Uploads == UNION {[1..n -> FilesOfUpload] : n \in 1..MaxFiles}

InitUpload ==
    /\ uploaded_files \in Uploads
    /\ file_index = 0 /\ all_dataframes = <<>>
    /\ traffic_type_key \in TrafficTypes
    /\ filtered_df = Frame(<<>>, <<>>) /\ is_account_level = FALSE
    /\ aggregated_data = Frame(<<>>, <<>>)
    /\ shown = <<>> /\ summary = NoSummary
    /\ top_asins = None /\ flop_asins = None
    /\ pc = "upload"
    /\ uploaded_file = Frame(<<>>, <<>>) /\ uploaded_file_name = "report.csv"
    /\ loaded = NotLoaded
    /\ ParseIdle /\ FindIdle

NextUpload == LoadFile \/ CombineFiles \/ AggregateData

SpecUpload == InitUpload /\ [][NextUpload]_vars
(***************************************************************************)
(* C1, C2: the normalizers on missing, empty and unparseable cells.        *)
(***************************************************************************)
NumericParsers == {"parse_euro_value", "parse_percentage", "parse_numeric_value"}

\* what each normalizer takes out of the text besides the separators
UnitSign(fn) == IF fn = "parse_euro_value" THEN {"<eur>"}
                ELSE IF fn = "parse_percentage" THEN {"%"} ELSE {}

\* A text is unparseable for a normalizer when what is left of it without
\* blanks, separators and the unit sign is neither a run of digits with an
\* optional sign in front nor one of float()'s words.
Unparseable(s, fn) ==
    LET core == Strip(SelectSeq(s, LAMBDA c : c \notin {" ", ".", ","} \cup UnitSign(fn)))
        body == IF Len(core) > 0 /\ core[1] \in {"+", "-"} THEN Tail(core) ELSE core
    IN  /\ ~(Len(body) > 0 /\ \A i \in 1..Len(body) : body[i] \in Digits)
        /\ Lower(body) \notin {<<"n", "a", "n">>, <<"i", "n", "f">>,
                               <<"i", "n", "f", "i", "n", "i", "t", "y">>}

\* C1: every numeric normalizer returns a float on every cell and never
\* raises; a missing, an empty or an unparseable cell gives 0.0.
C1_NormalizersTotal ==
    parsed.fn \in NumericParsers =>
        /\ parsed.out.k \in {"fin", "nan", "inf"}
        /\ (isna(value) \/ IsEmpty(value)
            \/ (value.t = "str" /\ Unparseable(value.s, parsed.fn)))
           => parsed.out = Zero

C1_Witness ==
    /\ parsed.fn = "parse_euro_value"
    /\ value.t = "str" /\ Len(value.s) > 0
    /\ Unparseable(value.s, parsed.fn)
    /\ HasChar(value.s, "1")
    /\ parsed.out = Zero

\* C2: parse_date_column returns None for every missing or empty cell and
\* for every text without a DD.MM.YY pattern.
C2_DateNoneWhenUnparseable ==
    (parsed.fn = "parse_date_column"
        /\ (isna(value) \/ IsEmpty(value) \/ DateSearch(PyStr(value)) = 0))
    => parsed.out = None

(***************************************************************************)
(* C3: a search with a B2B candidate returns a B2B header or nothing.      *)
(***************************************************************************)
\* C3: when a candidate contains "b2b", find_column returns None or a header
\* that contains "b2b", whichever of its three rules matched.
C3_B2BSearchReturnsB2BHeader ==
    (found # "<pending>" /\ is_b2b_search(possible_names))
    => (found = NotFound \/ HasB2B(found))


(***************************************************************************)
(* C4-C10: the dashboard run on an uploaded frame.                         *)
(***************************************************************************)
\* aggregate_data has returned
HasAggregated == pc \in {"level", "summary", "leaders", "done"}

\* the headers of the uploaded frame: aggregate_data adds its columns after
\* the last column of load_and_process_csv
Uploaded == SubSeq(filtered_df.columns, 1,
                   MinOf({i \in 1..Len(filtered_df.columns) :
                            filtered_df.columns[i] = "Report_Typ"}))

\* the columns aggregate_data added to the frame
ZeroFilled == {c \in Range(filtered_df.columns) : ~HasColumn(Uploaded, c)}

BaseMetrics == {"units", "revenue", "views", "sessions", "orders", "mobile", "browser"}

\* the name a base metric has in the frame aggregate_data returns
OutputName(metric, traffic_type) ==
    IF metric = "units"
      THEN (IF traffic_type = "B2B" THEN "Bestellte Einheiten <en> B2B"
            ELSE "Bestellte Einheiten")
    ELSE IF metric = "revenue" THEN "Umsatz"
    ELSE IF metric = "views" THEN "Seitenaufrufe"
    ELSE IF metric = "sessions" THEN "Sitzungen"
    ELSE IF metric = "orders" THEN "Bestellungen"
    ELSE IF metric = "mobile" THEN "Mobile Sitzungen"
    ELSE "Browser Sitzungen"

\* the uploaded frame has no header of the metric in the traffic segment
Absent(metric, traffic_type) ==
    ~\E i \in 1..Len(Uploaded) :
        MetricOf(Uploaded[i]) = metric /\ SegmentOf(Uploaded[i]) = traffic_type

\* the cell is the number 0
IsZeroCell(cell) == cell.t \in {"int", "float"} /\ Num(cell) = Zero

\* the row has the column and a 0 in it
ZeroIn(row, name) == name \in DOMAIN row /\ IsZeroCell(row[name])

DerivedKpis == {"Conversion Rate (%)", "AOV (<eur>)", "Revenue per Session (<eur>)"}

\* the derived KPIs of a row are finite, and 0 where the denominator is 0
GuardedRow(row) ==
    /\ \A k \in DerivedKpis \cap DOMAIN row :
          row[k].t \in {"int", "float"} /\ Num(row[k]).k = "fin"
    /\ ZeroIn(row, "Sitzungen")
         => \A k \in {"Conversion Rate (%)", "Revenue per Session (<eur>)"} \cap DOMAIN row :
               IsZeroCell(row[k])
    /\ ZeroIn(row, "Bestellungen")
         => ("AOV (<eur>)" \in DOMAIN row => IsZeroCell(row["AOV (<eur>)"]))

\* C4: in every row aggregate_data and aggregate_by_period produce and in the
\* rows get_top_flop_asins returns, the conversion rate and the revenue per
\* session are 0 when the sessions are 0, the order value is 0 when the
\* orders are 0, and no derived KPI is NaN or infinite.
C4_KpisGuarded ==
    /\ HasAggregated => \A i \in 1..Len(aggregated_data.rows) : GuardedRow(aggregated_data.rows[i])
    /\ top_asins # None => GuardedRow(top_asins)
    /\ flop_asins # None => GuardedRow(flop_asins)

\* C5: every column of zeros aggregate_data puts in for a base metric it did
\* not find is named in a warning that is shown.
C5_ZeroColumnsWarned ==
    HasAggregated =>
        \A c \in ZeroFilled :
            \E i \in 1..Len(shown) :
                shown[i].kind = "warning" /\ c \in Range(shown[i].columns)

\* C6 (as stated): aggregate_data returns on every frame, also on one without some of
\* the seven base metric columns, and a base metric the frame has no header
\* of is 0 in every row returned.
C6_AbsentMetricsZero ==
    /\ pc # "KeyError"
    /\ HasAggregated =>
         \A m \in BaseMetrics :
            Absent(m, traffic_type_key) =>
               \A i \in 1..Len(aggregated_data.rows) :
                  ZeroIn(aggregated_data.rows[i], OutputName(m, traffic_type_key))

\* the header of the column of zeros aggregate_data puts in for a base metric
SubstituteHeader(metric, traffic_type) ==
    (IF metric = "units" THEN "Bestellte Einheiten"
     ELSE IF metric = "revenue"
       THEN (IF traffic_type = "B2B" THEN "Bestellsumme"
             ELSE "Durch bestellte Produkte erzielter Umsatz")
     ELSE IF metric = "views" THEN "Seitenaufrufe <en> Summe"
     ELSE IF metric = "sessions" THEN "Sitzungen <en> Summe"
     ELSE IF metric = "orders" THEN "Zahl der Bestellposten"
     ELSE IF metric = "mobile" THEN "Sitzungen <en> mobile App"
     ELSE "Sitzungen <en> Browser")
    \o (IF traffic_type = "B2B" THEN " <en> B2B" ELSE "")

\* C6 (as amended): aggregate_data returns on every frame, also on one
\* without some of the seven base metric columns, and a base metric that it
\* put a column of zeros in for is 0 in every row returned.
C6_SubstitutedMetricsZero ==
    /\ pc # "KeyError"
    /\ HasAggregated =>
         \A m \in BaseMetrics :
            SubstituteHeader(m, traffic_type_key) \in ZeroFilled =>
               \A i \in 1..Len(aggregated_data.rows) :
                  ZeroIn(aggregated_data.rows[i], OutputName(m, traffic_type_key))

\* a product report without its revenue header: the revenue, the mobile and
\* the browser sessions of the periods are 0 and the units are not
C6_Witness ==
    /\ pc = "level" /\ ~is_account_level /\ traffic_type_key = "normal"
    /\ SubstituteHeader("revenue", "normal") \in ZeroFilled
    /\ Cardinality(ZeroFilled) = 3
    /\ \A i \in 1..Len(aggregated_data.rows) : ZeroIn(aggregated_data.rows[i], "Umsatz")
    /\ \E i \in 1..Len(aggregated_data.rows) :
          ~ZeroIn(aggregated_data.rows[i], "Bestellte Einheiten")

\* the uploaded headers of B2B units: they contain "b2b"
B2BUnitsHeaders ==
    {h \in Range(Uploaded) : InLower(h, "b2b") /\ InLower(h, "bestellte")
                             /\ InLower(h, "einheiten")}

\* the number in a cell of the uploaded frame
CellNumber(cell) == IF cell.t = "str" THEN PyFloat(cell.s) ELSE Num(cell)

\* the units under header h that belong to row i of the frame aggregate_data
\* returned: the cell of row i on account level, the sum of the rows of the
\* period on product level
UnitsUnder(h, i) ==
    IF is_account_level THEN CellNumber(filtered_df.rows[i][h])
    ELSE SumF(ColumnOf(SelectSeq(filtered_df.rows,
                LAMBDA row : row["Zeitraum"] = aggregated_data.rows[i]["Zeitraum"]), h))

\* C7: with traffic type B2B the units of every row aggregate_data returns
\* are those of an uploaded header that contains "b2b"; without such a header
\* they are 0, whatever the plain column 'Bestellte Einheiten' holds.
C7_B2BUnitsOnlyFromB2BHeader ==
    (pc = "level" /\ traffic_type_key = "B2B") =>
        \A i \in 1..Len(aggregated_data.rows) :
            IF B2BUnitsHeaders = {}
              THEN ZeroIn(aggregated_data.rows[i], "Bestellte Einheiten <en> B2B")
              ELSE \E h \in B2BUnitsHeaders :
                      /\ h \in DOMAIN aggregated_data.rows[i]
                      /\ Num(aggregated_data.rows[i][h]) = UnitsUnder(h, i)

\* a report with plain units sold and no B2B units header, seen as B2B
C7_Witness ==
    /\ pc = "level" /\ traffic_type_key = "B2B"
    /\ B2BUnitsHeaders = {}
    /\ HasColumn(Uploaded, "Bestellte Einheiten")
    /\ \A i \in 1..Len(filtered_df.rows) :
          Positive(CellNumber(filtered_df.rows[i]["Bestellte Einheiten"]))
    /\ \A i \in 1..Len(aggregated_data.rows) :
          ZeroIn(aggregated_data.rows[i], "Bestellte Einheiten <en> B2B")

\* the revenue header of the traffic segment in a complete product report
RevenueHeader == IF traffic_type_key = "B2B" THEN "Bestellsumme <en> B2B"
                 ELSE "Durch bestellte Produkte erzielter Umsatz"

\* the products of the latest period and the summed revenue of each
LatestProducts ==
    {latest_df(filtered_df, aggregated_data).rows[i]["(Untergeordnete) ASIN"] :
        i \in 1..Len(latest_df(filtered_df, aggregated_data).rows)}

SummedRevenue(asin) ==
    SumF(ColumnOf(SelectSeq(latest_df(filtered_df, aggregated_data).rows,
                            LAMBDA row : row["(Untergeordnete) ASIN"] = asin),
                  RevenueHeader))

WithPositiveRevenue == {a \in LatestProducts : Positive(SummedRevenue(a))}

\* the Top/Flop section has run on a product report
LeadersDone == pc = "done" /\ ~is_account_level

\* C8: the top row is a product of the highest summed revenue, with that
\* revenue; a flop row is returned exactly when two or more products have a
\* positive summed revenue, and it is a product of the lowest positive
\* summed revenue.
C8_TopAndFlop ==
    LeadersDone =>
        /\ top_asins # None
        /\ top_asins["ASIN"] \in LatestProducts
        /\ Num(top_asins["Umsatz"]) = SummedRevenue(top_asins["ASIN"])
        /\ \A a \in LatestProducts : ~LessF(Num(top_asins["Umsatz"]), SummedRevenue(a))
        /\ (flop_asins # None) <=> (Cardinality(WithPositiveRevenue) >= 2)
        /\ flop_asins # None =>
              /\ flop_asins["ASIN"] \in WithPositiveRevenue
              /\ Num(flop_asins["Umsatz"]) = SummedRevenue(flop_asins["ASIN"])
              /\ \A a \in WithPositiveRevenue :
                    ~LessF(SummedRevenue(a), Num(flop_asins["Umsatz"]))

\* three products of revenues 30, 20 and 0: the top is the one of 30, the
\* flop the one of 20
C8_Witness ==
    /\ LeadersDone /\ traffic_type_key = "normal"
    /\ {SummedRevenue(a) : a \in LatestProducts} = {Fin(30, 1), Fin(20, 1), Zero}
    /\ Cardinality(LatestProducts) = 3
    /\ top_asins # None /\ Num(top_asins["Umsatz"]) = Fin(30, 1)
    /\ flop_asins # None /\ Num(flop_asins["Umsatz"]) = Fin(20, 1)

\* C9: when no product has a positive summed revenue, no top row is returned
\* and the section shows an informational message in its place.
C9_NoTopWithoutRevenue ==
    (LeadersDone /\ WithPositiveRevenue = {}) =>
        /\ top_asins = None
        /\ \A i \in 1..Len(shown) : shown[i].kind # "top"
        /\ \E i \in 1..Len(shown) : shown[i].kind = "info"

\* the periods of the aggregated table
Periods == {aggregated_data.rows[i]["Zeitraum"] : i \in 1..Len(aggregated_data.rows)}

\* C10: when the aggregated table holds one period, the summary is the
\* message that only one period is available and generate_summary is not
\* called; generate_summary returns a message and no change values when the
\* data of the previous period is None or has no row.
C10_OnePeriodNoComparison ==
    /\ (pc \in {"leaders", "done"} /\ Cardinality(Periods) <= 1) =>
          summary = [called |-> FALSE, comparison |-> FALSE, text |-> OnePeriodMessage]
    /\ HasAggregated =>
          /\ generate_summary(aggregated_data, None, traffic_type_key)
               = [comparison |-> FALSE, text |-> FirstPeriodMessage]
          /\ generate_summary(aggregated_data, Frame(aggregated_data.columns, <<>>),
                              traffic_type_key)
               = [comparison |-> FALSE, text |-> FirstPeriodMessage]

(***************************************************************************)
(* Properties of load_and_process_csv.                                     *)
(***************************************************************************)
\* the text s has two digits, a dot, two digits, a dot and two digits from
\* position i on
DatePatternAt(s, i) ==
    /\ i >= 1 /\ i + 7 <= Len(s)
    /\ s[i] \in Digits /\ s[i + 1] \in Digits /\ s[i + 2] = "."
    /\ s[i + 3] \in Digits /\ s[i + 4] \in Digits /\ s[i + 5] = "."
    /\ s[i + 6] \in Digits /\ s[i + 7] \in Digits

\* the date YYYY-MM-DD of the pattern at i: YY below 50 is 20YY, else 19YY
DateKeyAt(s, i) ==
    (IF 10 * DigitVal[s[i + 6]] + DigitVal[s[i + 7]] < 50 THEN <<"2", "0">>
     ELSE <<"1", "9">>)
    \o <<s[i + 6], s[i + 7], "-", s[i + 3], s[i + 4], "-", s[i], s[i + 1]>>

HasDatePattern(s) == \E i \in 1..Len(s) : DatePatternAt(s, i)

FirstDatePattern(s) ==
    CHOOSE i \in 1..Len(s) : DatePatternAt(s, i) /\ \A j \in 1..(i - 1) : ~DatePatternAt(s, j)

LoadedAccountFile == loaded.done /\ HasColumn(uploaded_file.columns, "Datum")

LoadedProductFile == loaded.done /\ ~HasColumn(uploaded_file.columns, "Datum")

\* C11: after load_and_process_csv of a file with a Datum column, the rows
\* kept are the rows of the file whose Datum field holds a DD.MM.YY date, in
\* the order of the file, and the period key of each is the date YYYY-MM-DD
\* of that field; a row whose Datum field is empty or holds no such date is
\* dropped.
C11_AccountRowsHaveDateKeys ==
    LoadedAccountFile =>
        LET dated == SelectSeq(uploaded_file.rows,
                               LAMBDA row : HasDatePattern(row["Datum"].s))
        IN  /\ Len(loaded.df.rows) = Len(dated)
            /\ \A i \in 1..Len(loaded.df.rows) :
                  /\ i <= Len(dated)
                  /\ loaded.df.rows[i]["Datum"] = dated[i]["Datum"]
                  /\ loaded.df.rows[i]["Zeitraum"] =
                        Str(DateKeyAt(dated[i]["Datum"].s,
                                      FirstDatePattern(dated[i]["Datum"].s)))

\* the period key a product report gets from its file name
NameKey(s) == IF HasDatePattern(s) THEN DateKeyAt(s, FirstDatePattern(s)) ELSE s

\* C12: after load_and_process_csv of a file without a Datum column, every
\* row carries the same period key: the date YYYY-MM-DD of the first
\* DD.MM.YY pattern of the file name, with YY below 50 read as 20YY and any
\* other YY as 19YY, or the file name itself when it holds no such pattern.
C12_ProductRowsShareFileKey ==
    LoadedProductFile =>
        /\ Len(loaded.df.rows) >= 1
        /\ \A i \in 1..Len(loaded.df.rows) :
              loaded.df.rows[i]["Zeitraum"] = Str(NameKey(Chars[uploaded_file_name]))

\* a product report of the last century is loaded with two rows
C12_Witness ==
    /\ LoadedProductFile
    /\ uploaded_file_name = "Report_31.12.99.csv"
    /\ Len(loaded.df.rows) = 2
    /\ \A i \in 1..2 : loaded.df.rows[i]["Zeitraum"] = Text("1999-12-31")

(***************************************************************************)
(* Properties of the rows aggregate_data returns.                          *)
(***************************************************************************)
\* the period keys of the rows of a frame
PeriodKeysOf(df) == {df.rows[i]["Zeitraum"] : i \in 1..Len(df.rows)}

\* the sum of a column of the uploaded frame over the rows of a period
PeriodSum(header, key) ==
    SumF(ColumnOf(SelectSeq(filtered_df.rows, LAMBDA row : row["Zeitraum"] = key), header))

\* the base metrics whose header of the traffic segment the report has
PresentMetrics ==
    {m \in BaseMetrics : HasColumn(Uploaded, SubstituteHeader(m, traffic_type_key))}

\* C13: the frame aggregate_data returns has exactly one row for every
\* period key of the uploaded frame, and in that row every base metric the
\* report has a column of is the sum of the column over the rows of the
\* period; on product level and on account level.
C13_OneRowPerPeriod ==
    pc = "level" =>
        /\ PeriodKeysOf(aggregated_data) = PeriodKeysOf(filtered_df)
        /\ \A i, j \in 1..Len(aggregated_data.rows) :
              aggregated_data.rows[i]["Zeitraum"] = aggregated_data.rows[j]["Zeitraum"]
                 => i = j
        /\ \A i \in 1..Len(aggregated_data.rows) : \A m \in PresentMetrics :
              LET name == OutputName(m, traffic_type_key)
              IN  /\ name \in DOMAIN aggregated_data.rows[i]
                  /\ Num(aggregated_data.rows[i][name]) =
                        PeriodSum(SubstituteHeader(m, traffic_type_key),
                                  aggregated_data.rows[i]["Zeitraum"])

\* the quotient of two columns of a row, where the divisor is positive
QuotientIn(row, kpi, numerator, denominator) ==
    ({numerator, denominator} \subseteq DOMAIN row /\ Positive(Num(row[denominator])))
        => /\ kpi \in DOMAIN row
           /\ Num(row[kpi]) = DivF(Num(row[numerator]), Num(row[denominator]))

\* C14: in every row aggregate_data returns the order value is the revenue
\* of the row over its orders when it has orders, and the revenue per
\* session is the revenue over the sessions when it has sessions; on product
\* level and on account level, with or without the report's own
\* order-value column.
C14_OrderValueAndRevenuePerSession ==
    pc = "level" =>
        \A i \in 1..Len(aggregated_data.rows) :
            /\ QuotientIn(aggregated_data.rows[i], "AOV (<eur>)", "Umsatz", "Bestellungen")
            /\ QuotientIn(aggregated_data.rows[i], "Revenue per Session (<eur>)",
                          "Umsatz", "Sitzungen")

\* the report's own conversion-rate headers of the traffic segment
NativeRateHeaders ==
    {h \in Range(Uploaded) : MetricOf(h) = "cr" /\ SegmentOf(h) = traffic_type_key}

\* the mean of a column of the uploaded frame over the rows of a period
PeriodMean(header, key) ==
    MeanF(ColumnOf(SelectSeq(filtered_df.rows, LAMBDA row : row["Zeitraum"] = key), header))

\* C15: on product level the conversion rate of a period row that
\* aggregate_data returns is the mean of the report's own conversion-rate
\* column of the traffic segment over the rows of the period when the report
\* has that column, and orders / sessions * 100 of the summed orders and
\* sessions of the period when it has none (and the period has sessions).
C15_ConversionRateMeanOrQuotient ==
    (pc = "level" /\ ~is_account_level) =>
        \A i \in 1..Len(aggregated_data.rows) :
            LET row == aggregated_data.rows[i]
            IN  /\ "Conversion Rate (%)" \in DOMAIN row
                /\ \A h \in NativeRateHeaders :
                      Num(row["Conversion Rate (%)"]) = PeriodMean(h, row["Zeitraum"])
                /\ (NativeRateHeaders = {} /\ Positive(Num(row["Sitzungen"])))
                      => Num(row["Conversion Rate (%)"]) =
                            MulF(DivF(Num(row["Bestellungen"]), Num(row["Sitzungen"])), 100)

\* two records of one period with the rates 50 and 100: the period has the
\* rate 75, with 4 orders in 6 sessions
C15_Witness ==
    /\ pc = "level" /\ ~is_account_level /\ traffic_type_key = "normal"
    /\ NativeRateHeaders # {}
    /\ Len(filtered_df.rows) = 2 /\ Len(aggregated_data.rows) = 1
    /\ Num(aggregated_data.rows[1]["Conversion Rate (%)"]) = Fin(75, 1)
    /\ Num(aggregated_data.rows[1]["Bestellungen"]) = Fin(4, 1)
    /\ Num(aggregated_data.rows[1]["Sitzungen"]) = Fin(6, 1)


(***************************************************************************)
(* The separators of the numeric normalizers.                              *)
(***************************************************************************)
\* the text without its blanks, and without the euro sign for
\* parse_euro_value
Bare(s, fn) ==
    SelectSeq(s, LAMBDA c : c # " " /\ (fn = "parse_euro_value" => c # "<eur>"))

\* the text is made of digits and the separators of a set, with a digit
NumberWith(u, separators) ==
    /\ \A i \in 1..Len(u) : u[i] \in Digits \cup separators
    /\ \E i \in 1..Len(u) : u[i] \in Digits

\* the digits of a text, in their order
DigitsOf(u) == SelectSeq(u, LAMBDA c : c \in Digits)

\* how many digits stand after position i of a text
DigitsAfter(u, i) == Cardinality({j \in (i + 1)..Len(u) : u[j] \in Digits})

\* the last position of a character that occurs in the text
LastOf(u, c) == MaxOf({i \in 1..Len(u) : u[i] = c})

\* the number the digits of u are with the decimal point at position i
DecimalAt(u, i) == Fin(DigitsValue(DigitsOf(u)), Pow10(DigitsAfter(u, i)))

\* the number the digits of u are without any separator
Grouped(u) == Fin(DigitsValue(DigitsOf(u)), 1)

\* a normalizer ran on a text
RanOnText(fn) == parsed.fn = fn /\ value.t = "str"

\* C16: for a currency text with one ',' (besides digits, '.' group
\* separators, blanks and a euro sign) parse_euro_value returns the number
\* whose decimal point is the ',' and whose '.' are all removed.
C16_EuroCommaIsDecimal ==
    RanOnText("parse_euro_value") =>
        LET u == Bare(value.s, "parse_euro_value")
        IN  (NumberWith(u, {".", ","}) /\ Count(u, ",") = 1)
               => parsed.out = DecimalAt(u, Find(u, ","))

\* "1.999,55 <eur>" is 1999.55
C16_Witness ==
    /\ RanOnText("parse_euro_value")
    /\ value = Text("1.999,55 <eur>")
    /\ parsed.out = Fin(199955, 100)

\* C17: for a text of digits with ',' and without '.', parse_numeric_value
\* reads a single ',' as the decimal point when at most 2 characters follow
\* it and removes it when more than 2 follow; more than one ',' are all
\* removed.
C17_NumericCommaByLength ==
    RanOnText("parse_numeric_value") =>
        LET u == Bare(value.s, "parse_numeric_value")
        IN  (NumberWith(u, {","}) /\ Count(u, ",") >= 1)
               => parsed.out = IF Count(u, ",") = 1 /\ Len(u) - Find(u, ",") <= 2
                                 THEN DecimalAt(u, Find(u, ","))
                                 ELSE Grouped(u)

\* "9,778" is 9778.0
C17_Witness ==
    /\ RanOnText("parse_numeric_value")
    /\ value = Text("9,778")
    /\ parsed.out = Fin(9778, 1)

\* what float() gives for the text u with every separator other than the one
\* at position i removed and that one read as the decimal point; 0.0 when
\* this is no number
ReadWithDecimalAt(u, i) ==
    LET other == IF u[i] = "," THEN "." ELSE ","
    IN  TryFloat(ReplaceChar(RemoveChar(u, other), u[i], "."), Exceptions)

\* C18: for a text with '.' and ',', parse_numeric_value reads the separator
\* that stands last in the text as the decimal separator and removes every
\* occurrence of the other one, also when a separator occurs more than once.
C18_NumericLaterSeparatorIsDecimal ==
    RanOnText("parse_numeric_value") =>
        LET u == Bare(value.s, "parse_numeric_value")
        IN  (NumberWith(u, {".", ","}) /\ HasChar(u, ".") /\ HasChar(u, ","))
               => parsed.out =
                     ReadWithDecimalAt(u, MaxOf({LastOf(u, "."), LastOf(u, ",")}))

\* C19: for a text of digits with '.' and without ',', parse_euro_value and
\* parse_numeric_value remove the dots only when there is more than one; a
\* single '.' is the decimal point, so "1.999" is 1.999.
C19_SingleDotIsDecimal ==
    \A fn \in {"parse_euro_value", "parse_numeric_value"} :
        RanOnText(fn) =>
            LET u == Bare(value.s, fn)
            IN  (NumberWith(u, {"."}) /\ Count(u, ".") >= 1)
                   => parsed.out = IF Count(u, ".") > 1 THEN Grouped(u)
                                   ELSE DecimalAt(u, Find(u, "."))

\* "1.999" is 1.999
C19_Witness ==
    /\ RanOnText("parse_numeric_value")
    /\ value = Text("1.999")
    /\ parsed.out = Fin(1999, 1000)
(***************************************************************************)
(* C20: the order of the three rules of find_column.                       *)
(***************************************************************************)
\* the candidates (by position) that equal a header
ExactCandidates ==
    {i \in 1..Len(possible_names) :
       \E j \in 1..Len(columns) : columns[j] = possible_names[i]}

\* the headers whose normal form is that of candidate i
NormalHeaders(i) ==
    {columns[j] : j \in {k \in 1..Len(columns) :
                           NormalText[columns[k]] = NormalText[possible_names[i]]}}

NormalCandidates == {i \in 1..Len(possible_names) : NormalHeaders(i) # {}}

\* the positions of the headers that contain every keyword of candidate i
\* and pass the B2B rule of the search
KeywordHeaders(i) ==
    {j \in 1..Len(columns) :
       KeywordMatch(possible_names[i], columns[j], is_b2b_search(possible_names))}

KeywordCandidates == {i \in 1..Len(possible_names) : KeywordHeaders(i) # {}}

\* C20: find_column applies its rules in order over the whole candidate
\* list and the first match wins: the first candidate that equals a header;
\* if there is none, a header whose normal form is that of the first
\* candidate with such a header; if there is none, the first header that
\* contains every keyword of the first candidate with such a header; if
\* there is none, nothing.
C20_RulesInOrderFirstMatchWins ==
    found # "<pending>" =>
        IF ExactCandidates # {}
          THEN found = possible_names[MinOf(ExactCandidates)]
        ELSE IF NormalCandidates # {}
          THEN found \in NormalHeaders(MinOf(NormalCandidates))
        ELSE IF KeywordCandidates # {}
          THEN found = columns[MinOf(KeywordHeaders(MinOf(KeywordCandidates)))]
        ELSE found = NotFound

\* a later candidate equals a header and is returned, although an earlier
\* candidate matches another header by its normal form or by its keywords
C20_Witness ==
    /\ found # "<pending>"
    /\ \E k \in ExactCandidates :
         /\ found = possible_names[k]
         /\ \E i \in 1..(k - 1) :
              \/ \E h \in NormalHeaders(i) : h # found
              \/ \E j \in KeywordHeaders(i) : columns[j] # found

(***************************************************************************)
(* C21, C23, C27: the periods of aggregate_by_period.                      *)
(***************************************************************************)
\* the base metric columns of a frame aggregate_data returned
BaseColumns(df) ==
    {c \in Range(df.columns) :
       \/ \E m \in BaseMetrics : \E t \in TrafficTypes : c = OutputName(m, t)
       \/ c = "Bestellte Einheiten - B2B"}

\* the rows of a frame with a period key
RowsOfKey(df, key) == SelectSeq(df.rows, LAMBDA row : row["Zeitraum"] = key)

\* the period keys of a frame that are days
DayKeys(df) == {k \in PeriodKeysOf(df) : k.t = "str" /\ to_datetime(k.s) # NaT}

DaysOf(df, period, label) ==
    SelectSeq(df.rows, LAMBDA row : /\ RowDate(row) # NaT
                                    /\ Str(PeriodText(RowDate(row), period)) = label)

\* the sum of a column over the daily rows of a period
SumOfDays(df, period, label, c) == SumF(ColumnOf(DaysOf(df, period, label), c))

\* the quotient with 0 on a zero divisor
Quotient(a, b) == IF b = Zero THEN Zero ELSE DivF(a, b)

\* the frame has a conversion-rate column of a report
HasRateColumn(df) == \E c \in Range(df.columns) : IsRateColumn(c)

\* the KPIs of a period row are those of the sums of the days of the period
RecomputedRow(row, days, period) ==
    LET S(c) == SumOfDays(days, period, row["Zeitraum"], c)
    IN  /\ DerivedKpis \subseteq DOMAIN row
        /\ Num(row["AOV (<eur>)"]) = Quotient(S("Umsatz"), S("Bestellungen"))
        /\ Num(row["Revenue per Session (<eur>)"]) = Quotient(S("Umsatz"), S("Sitzungen"))
        /\ ~HasRateColumn(days)
              => Num(row["Conversion Rate (%)"])
                    = MulF(Quotient(S("Bestellungen"), S("Sitzungen")), 100)

\* C23: in every row aggregate_by_period returns for weeks, months or years,
\* the order value, the revenue per session and (without a conversion-rate
\* column of the report) the conversion rate are the quotients of the summed
\* revenue, orders and sessions of the days of the period, and 0 when the
\* divisor is 0; they are not the sums of the daily values.
C23_PeriodKpisRecomputed ==
    [][(pc = "level" /\ pc' = "summary" /\ is_daily_data(aggregated_data)) =>
         \E period \in PeriodKeys :
            \A i \in 1..Len(aggregated_data'.rows) :
               RecomputedRow(aggregated_data'.rows[i], aggregated_data, period)]_vars

\* the two days of one period had the order values 15 and 25/2, and the
\* period has 55 / 4
C23_Witness ==
    /\ pc = "summary" /\ ~is_account_level /\ traffic_type_key = "normal"
    /\ Len(filtered_df.rows) = 2 /\ Len(aggregated_data.rows) = 1
    /\ filtered_df.rows[1]["Zeitraum"] # filtered_df.rows[2]["Zeitraum"]
    /\ Num(aggregated_data.rows[1]["Umsatz"]) = Fin(55, 1)
    /\ Num(aggregated_data.rows[1]["Bestellungen"]) = Fin(4, 1)
    /\ Num(aggregated_data.rows[1]["AOV (<eur>)"]) = Fin(55, 4)

\* the sum of a column over all rows of a frame
Total(df, c) == SumF(ColumnOf(df.rows, c))

\* C27: aggregation keeps the totals.  The sum of every base metric over
\* the rows aggregate_data returns on a product-level frame is its sum over
\* the records of the frame, and the sum over the rows aggregate_by_period
\* returns is the sum over the rows it was called on.
C27_TotalsPreserved ==
    [][/\ (pc = "aggregate" /\ pc' = "level" /\ ~is_account_level) =>
            \A m \in PresentMetrics :
               /\ HasColumn(aggregated_data'.columns, OutputName(m, traffic_type_key))
               /\ Total(aggregated_data', OutputName(m, traffic_type_key))
                     = Total(filtered_df, SubstituteHeader(m, traffic_type_key))
       /\ (pc = "level" /\ pc' = "summary" /\ is_daily_data(aggregated_data)) =>
            \A c \in BaseColumns(aggregated_data) :
               /\ HasColumn(aggregated_data'.columns, c)
               /\ Total(aggregated_data', c) = Total(aggregated_data, c)]_vars

(***************************************************************************)
(* C24: the duplicates of a file.                                          *)
(***************************************************************************)
\* the child ASIN and the period key of a loaded row
ProductKey(row) == <<row["(Untergeordnete) ASIN"], row["Zeitraum"]>>

\* the rows of the uploaded file as load_and_process_csv normalizes them,
\* before the duplicates are dropped
FileRows ==
    LoadedRows(uploaded_file, HasColumn(uploaded_file.columns, "Datum"), uploaded_file_name)

\* C24: after load_and_process_csv of a file with the column
\* '(Untergeordnete) ASIN' no two rows returned have the same child ASIN and
\* period key, and the rows returned are, in file order, the first row of
\* the file for each child ASIN and period key.
C24_FirstOfDuplicatesKept ==
    (loaded.done /\ HasColumn(uploaded_file.columns, "(Untergeordnete) ASIN")) =>
        LET rows == loaded.df.rows
            firsts == {i \in 1..Len(FileRows) :
                         \A j \in 1..(i - 1) : ProductKey(FileRows[j]) # ProductKey(FileRows[i])}
        IN  /\ \A i, j \in 1..Len(rows) : ProductKey(rows[i]) = ProductKey(rows[j]) => i = j
            /\ Len(rows) = Cardinality(firsts)
            /\ \A k \in 1..Len(rows) :
                  \E i \in firsts : /\ rows[k] = FileRows[i]
                                    /\ Cardinality({j \in firsts : j <= i}) = k

\* a file with two lines of one product, 12 units and then 9778: the line
\* with 12 units is the one returned
C24_Witness ==
    /\ loaded.done /\ Len(uploaded_file.rows) = 2
    /\ HasColumn(uploaded_file.columns, "(Untergeordnete) ASIN")
    /\ uploaded_file.rows[1]["Bestellte Einheiten"] = Field("12")
    /\ uploaded_file.rows[2]["Bestellte Einheiten"] = Field("9,778")
    /\ Len(loaded.df.rows) = 1 /\ loaded.removed_count = 1
    /\ Num(loaded.df.rows[1]["Bestellte Einheiten"]) = Fin(12, 1)

(***************************************************************************)
(* C25: the records Top and Flop are computed from.                        *)
(***************************************************************************)
\* the period of the last row of the aggregated table
LatestPeriod == aggregated_data.rows[Len(aggregated_data.rows)]["Zeitraum"]

\* the record falls in the latest period of the aggregated table: its period
\* key is that period, or its day lies in that week, month or year
InLatestPeriod(row) ==
    \/ row["Zeitraum"] = LatestPeriod
    \/ /\ RowDate(row) # NaT
       /\ \E period \in PeriodKeys : Str(PeriodText(RowDate(row), period)) = LatestPeriod

\* the records of the latest period
LatestRecords == SelectSeq(filtered_df.rows, InLatestPeriod)

\* the revenue of a product in the latest period
LatestRevenue(asin) ==
    SumF(ColumnOf(SelectSeq(LatestRecords,
                            LAMBDA row : row["(Untergeordnete) ASIN"] = asin),
                  RevenueHeader))

\* the row is a product of the latest period with its revenue of that period
OfLatestPeriod(leader) ==
    /\ \E i \in 1..Len(LatestRecords) :
          LatestRecords[i]["(Untergeordnete) ASIN"] = leader["ASIN"]
    /\ HasColumn(Uploaded, RevenueHeader)
          => Num(leader["Umsatz"]) = LatestRevenue(leader["ASIN"])

\* C25: on product level the top and the flop row are products with records
\* in the latest period of the aggregated table, and their revenue is the
\* sum over the records of that period only, whether the table holds days,
\* weeks, months or years.
C25_LeadersOfLatestPeriod ==
    (LeadersDone /\ Len(aggregated_data.rows) > 0) =>
        /\ top_asins # None => OfLatestPeriod(top_asins)
        /\ flop_asins # None => OfLatestPeriod(flop_asins)

\* C28: a flop row that get_top_flop_asins returns is another product than
\* the top row it returns, also when products have the same summed revenue.
C28_FlopIsNotTop ==
    (LeadersDone /\ top_asins # None /\ flop_asins # None)
        => flop_asins["ASIN"] # top_asins["ASIN"]

(***************************************************************************)
(* C26: the frame handed to aggregate_data.                                *)
(***************************************************************************)
\* C26: aggregate_data leaves the frame it is called on as it was: after the
\* call the frame of the script has the columns and the cells it had before.
C26_AggregateLeavesFrame ==
    [][(pc = "aggregate" /\ pc' # "aggregate") => filtered_df' = filtered_df]_vars

(***************************************************************************)
(* C22, C29, C30: from the uploaded files to the periods.                  *)
(***************************************************************************)
\* the numbers the fields of the uploaded lines stand for
Amounts ==
    {<<Field("10"), 10>>, <<Field("12"), 12>>, <<Field("8"), 8>>, <<Field("50"), 50>>,
     <<Field("60"), 60>>, <<Field("0"), 0>>, <<Field("100,00 <eur>"), 100>>}

\* 150,50 is 301 / 2
AmountOf(cell) ==
    IF cell = Field("150,50 <eur>") THEN Fin(301, 2)
    ELSE Fin((CHOOSE p \in Amounts : p[1] = cell)[2], 1)

\* the files were loaded and combined and aggregate_data has returned the
\* periods of the plain segment, the one the columns of the files are of
Aggregated_files == pc = "level" /\ traffic_type_key = "normal"

\* every uploaded file can be read and no two have the same name
DistinctReadableFiles ==
    /\ \A i \in 1..Len(uploaded_files) : uploaded_files[i].df # None
    /\ \A i, j \in 1..Len(uploaded_files) :
          uploaded_files[i].name = uploaded_files[j].name => i = j

\* the row of the periods with the key of a file name
RowsOfFile(file) ==
    SelectSeq(aggregated_data.rows,
              LAMBDA row : row["Zeitraum"] = Str(NameKey(Chars[file.name])))

\* the row has the conversion rate and the order value of the line
KpisOfLine(row, line) ==
    LET revenue == AmountOf(line["Durch bestellte Produkte erzielter Umsatz"])
        sessions == AmountOf(line["Sitzungen <en> Summe"])
        orders == AmountOf(line["Zahl der Bestellposten"])
    IN  /\ Num(row["Conversion Rate (%)"]) = MulF(Quotient(orders, sessions), 100)
        /\ Num(row["AOV (<eur>)"]) = Quotient(revenue, orders)

\* C22: product files of one product each, with distinct dates in their
\* names, give in the Normal view one period row per file, and the row of a
\* file has the conversion rate orders / sessions * 100 and the order value
\* revenue / orders of the line of the file.
C22_EndToEndRowPerFile ==
    (Aggregated_files /\ DistinctReadableFiles) =>
        /\ Len(aggregated_data.rows) = Len(uploaded_files)
        /\ \A i \in 1..Len(uploaded_files) :
              /\ Len(RowsOfFile(uploaded_files[i])) = 1
              /\ KpisOfLine(RowsOfFile(uploaded_files[i])[1], uploaded_files[i].df.rows[1])

\* the files of 01.03.25 and 02.03.25 with revenue 100,00 and 150,50,
\* sessions 50 and 60, orders 8 and 10: the rates are 16 and 50/3, the order
\* values 12.5 and 15.05
C22_Witness ==
    /\ Aggregated_files /\ Len(uploaded_files) = 2 /\ DistinctReadableFiles
    /\ uploaded_files[1].name = "BusinessReport-01.03.25.csv"
    /\ uploaded_files[2].name = "BusinessReport-02.03.25.csv"
    /\ uploaded_files[1].df.rows[1]["Durch bestellte Produkte erzielter Umsatz"]
          = Field("100,00 <eur>")
    /\ uploaded_files[2].df.rows[1]["Durch bestellte Produkte erzielter Umsatz"]
          = Field("150,50 <eur>")
    /\ Len(aggregated_data.rows) = 2
    /\ aggregated_data.rows[1]["Zeitraum"] = Text("2025-03-01")
    /\ Num(aggregated_data.rows[1]["Conversion Rate (%)"]) = Fin(16, 1)
    /\ Num(aggregated_data.rows[1]["AOV (<eur>)"]) = Fin(25, 2)
    /\ aggregated_data.rows[2]["Zeitraum"] = Text("2025-03-02")
    /\ Num(aggregated_data.rows[2]["Conversion Rate (%)"]) = Fin(50, 3)
    /\ Num(aggregated_data.rows[2]["AOV (<eur>)"]) = Fin(301, 20)

\* the files of an upload without the later copies of a file
Once(files) ==
    SelectSeq([i \in 1..Len(files) |->
                  IF \E j \in 1..(i - 1) : files[j] = files[i] THEN None ELSE files[i]],
              LAMBDA f : f # None)

\* the frames of the files of an upload that can be read
FramesOf(files) ==
    LET readable == SelectSeq(files, LAMBDA f : f.df # None)
    IN  [i \in 1..Len(readable) |-> LoadedFile(readable[i]).df]

\* the periods of an upload
PeriodsOf(files) ==
    aggregate_data(combined_df(FramesOf(files)), traffic_type_key, FALSE).aggregated

\* C29: an upload that holds a product file twice gives the period rows of
\* the upload that holds it once: no record is counted twice.
C29_SameFileTwiceCountsOnce ==
    pc = "level" => aggregated_data = PeriodsOf(Once(uploaded_files))

\* the files the loop has handled
Handled == SubSeq(uploaded_files, 1, file_index)

\* the errors shown for files
FileErrors == SelectSeq(shown, LAMBDA m : m.kind = "error" /\ "file" \in DOMAIN m)

\* C30: a file load_and_process_csv fails on is reported as an error and
\* adds no frame; the files that can be read are all loaded, combined and
\* aggregated, whatever failed before or after them; the aggregation is
\* left out exactly when no file could be loaded.
C30_FailedFileSkipped ==
    /\ all_dataframes = FramesOf(Handled)
    /\ [i \in 1..Len(FileErrors) |-> FileErrors[i].file]
          = [i \in 1..Len(SelectSeq(Handled, LAMBDA f : f.df = None)) |->
                SelectSeq(Handled, LAMBDA f : f.df = None)[i].name]
    /\ pc = "aggregate" => filtered_df = combined_df(FramesOf(uploaded_files))
    /\ pc = "level" => aggregated_data = PeriodsOf(uploaded_files)
    /\ (pc # "upload") =>
          /\ file_index = Len(uploaded_files)
          /\ (pc = "done") <=> (FramesOf(uploaded_files) = <<>>)

\* a file that cannot be read between the files of two days: the error is
\* shown and the two days are aggregated
C30_Witness ==
    /\ pc = "level" /\ Len(uploaded_files) = 3
    /\ uploaded_files[1].df # None /\ uploaded_files[2].df = None
    /\ uploaded_files[3].df # None
    /\ uploaded_files[1].name # uploaded_files[3].name
    /\ Len(FileErrors) = 1 /\ Len(all_dataframes) = 2
    /\ Len(aggregated_data.rows) = 2

====
